---------------------------- MODULE Spec2Model ----------------------------
(***************************************************************************)
(* Layout engine of the weekly schedule view: conflict graph, interval     *)
(* scheduling, path-depth analysis, fixed-block detection, connected       *)
(* components and the asynchronous width optimisation, as implemented in   *)
(* src/src/algorithm/Graph.ts (computeBlockPositions and its helpers) and  *)
(* driven by the Schedule model (src/unnamed/part_001).                    *)
(*                                                                         *)
(* Blocks live in an arena `blk`, a function from block ids to records;    *)
(* the id of a block is <<d, k>>, the k-th block created for weekday d.    *)
(* Every reference to a block (array slots of a weekday, neighbors, heap   *)
(* entries, components) is its id.  Numbers that are floats in the program *)
(* (left, width) are exact fractions <<num, den>> in lowest terms.         *)
(***************************************************************************)
EXTENDS Integers, Sequences, FiniteSets, TLC

VARIABLES
    days,       \* days[d]: the array of block ids of weekday d, in array order
    blk,        \* blk[i]: the fields of ScheduleBlock i
    calls,      \* calls[p]: the p-th call of computeBlockPositions: its state, and
                \* (history) whether no solve was pending when it started
    solves,     \* the solves handed to the optimizer, in dispatch order
    ret,        \* what the latest call/scheduler run returned per weekday
    atCall,     \* history: blk as it was when the latest call started
    entryVisited, \* history: blocks with visited = true on entry to calculateMaxDepth
    All,          \* Schedule.All: course key -> the sections chosen for it
    previewed,    \* Schedule._preview: the hovered section, or NoPreview
    pendingCompute, \* Schedule.pendingCompute: the id of the timer set last
    timers,       \* the ids of the timers that are set and have not fired
    timerSeq,     \* the number of timers created so far (the latest id)
    computedFrom, \* history: what the latest _computeSchedule read
    runs,         \* history: how often _computeSchedule has run
    lastOp,       \* history: the latest call of a Schedule method
    events,       \* Schedule.events
    lastEvent,    \* history: the latest call of addEvent or deleteEvent
    count,        \* SearchWorker: messages handled so far
    courseDict,   \* SearchWorker: the dictionary the searchers are built on
    inbox,        \* messages posted to the worker and not handled yet
    posted,       \* messages the worker posted, in order
    handled,      \* history: the messages the worker handled, in order
    sent,         \* history: how many messages were posted to the worker
    graph,        \* computeConflict: the adjacency list of each vertex
    vertices,     \* computeConflict: the Vertex objects
    roots,        \* history: the start node of each search tree
    graphState,   \* "none", "built" or "searched"
    profiles,     \* Profile.profiles
    current,      \* Profile.current
    storage,      \* localStorage: the profile stored under each name
    credentials,  \* localStorage holds username and credential
    storeSemester, \* Store.semester.currentSemester, 0 when none
    remote,       \* the backend: the latest profile stored under each name
    clock,        \* the time new Date() returned last
    syncs,        \* the calls of syncProfiles, with history fields
    pendingDelete, \* the deleteProfile call that awaits the backend
    lastDelete    \* history: the latest call of deleteProfile

layoutVars == <<days, blk, calls, solves, ret, atCall, entryVisited>>
schedVars == <<All, previewed, pendingCompute, timers, timerSeq, computedFrom, runs, lastOp>>
eventVars == <<events, lastEvent>>
\* what the layout engine, the methods on All and the preview, and the methods
\* on events leave alone
workerVars == <<count, courseDict, inbox, posted, handled, sent>>
graphVars == <<graph, vertices, roots, graphState>>
profileVars == <<profiles, current, storage, credentials, storeSemester, remote, clock,
                 syncs, pendingDelete, lastDelete>>
nonLayoutVars == <<schedVars, eventVars, workerVars, graphVars, profileVars>>
nonUpdateVars == <<layoutVars, eventVars, workerVars, graphVars, profileVars>>
nonScheduleVars == <<layoutVars, workerVars, graphVars, profileVars>>
nonWorkerVars == <<layoutVars, schedVars, eventVars, graphVars, profileVars>>
nonGraphVars == <<layoutVars, schedVars, eventVars, workerVars, profileVars>>
nonProfileVars == <<layoutVars, schedVars, eventVars, workerVars, graphVars>>
vars == <<layoutVars, schedVars, eventVars, workerVars, graphVars, profileVars>>

---------------------------------------------------------------------------
(* Bounds of the model *)

\* weekdays modelled (the program has Mo..Fr)
NumDays == 2
\* minutes run over 0..MaxTime
MaxTime == 3
\* blocks placed over all weekdays
MaxBlocks == 5
\* blocks placed on each weekday after the first
MaxOtherBlocks == 1
\* a repeated call is explored on inputs of at most this many blocks
MaxRepeatBlocks == 4
\* calls of computeBlockPositions on the same blocks
MaxPasses == 2
\* course keys 1..NumKeys and section numbers 1..NumSections of the Schedule
NumKeys == 2
NumSections == 2
\* calls of Schedule methods after construction
MaxOps == 4
MaxEvents == 3
\* courses of the largest dictionary, and messages posted to the search worker
NumCourses == 13
MaxMsgs == 3
\* vertices of the largest conflict graph
NumVertices == 5
\* semesters (and the profile names they give), profiles in the list, calls
\* of profile methods, and calls of syncProfiles
NumNames == 2
MaxProfiles == 3
MaxProfileOps == 4
MaxSyncs == 1
\* the length the worker cuts its result list to
ResultLimit == 12

---------------------------------------------------------------------------
(* Exact fractions *)

RECURSIVE GCD(_, _)
GCD(a, b) == IF b = 0 THEN a ELSE GCD(b, a % b)

Abs(n) == IF n < 0 THEN -n ELSE n

\* n / d in lowest terms; a zero denominator (JavaScript Infinity/NaN) is kept as is
Rat(n, d) ==
    IF d = 0 THEN <<n, 0>>
    ELSE LET g == GCD(Abs(n), Abs(d))
             s == IF d < 0 THEN -1 ELSE 1
         IN  <<(s * n) \div g, (s * d) \div g>>

RLe(p, q) == p[1] * q[2] <= q[1] * p[2]
RLt(p, q) == p[1] * q[2] < q[1] * p[2]
RAdd(p, q) == Rat(p[1] * q[2] + q[1] * p[2], p[2] * q[2])
RSub(p, q) == Rat(p[1] * q[2] - q[1] * p[2], p[2] * q[2])
RMax(p, q) == IF RLe(p, q) THEN q ELSE p
RMin(p, q) == IF RLe(p, q) THEN p ELSE q

---------------------------------------------------------------------------
(* ScheduleBlock *)

\* new ScheduleBlock(color, startMin, endMin, section): layout fields at defaults
NewScheduleBlock(s, e) ==
    [startMin |-> s, endMin |-> e, depth |-> 0, pathDepth |-> 0,
     left |-> <<-1, 1>>, width |-> <<-1, 1>>, isFixed |-> FALSE,
     visited |-> FALSE, neighbors |-> <<>>, idx |-> 0]

\* ScheduleBlock.conflict: half-open intervals overlap
conflict(x, y) == x.startMin < y.endMin /\ y.startMin < x.endMin

\* ScheduleBlock.duration
duration(x) == x.endMin - x.startMin

---------------------------------------------------------------------------
(* Array.prototype.sort with a comparator (stable) *)

\* the comparator of intervalScheduling/intervalScheduling2:
\* start ascending, then duration ascending
compareStart(b, x, y) ==
    IF b[x].startMin - b[y].startMin = 0
    THEN duration(b[x]) - duration(b[y])
    ELSE b[x].startMin - b[y].startMin

\* the comparator of calculateMaxDepth: depth descending
compareDepth(b, x, y) == b[y].depth - b[x].depth

compareBlocks(kind, b, x, y) ==
    IF kind = "start" THEN compareStart(b, x, y) ELSE compareDepth(b, x, y)

insertAt(sorted, x, n) ==
    SubSeq(sorted, 1, n) \o <<x>> \o SubSeq(sorted, n + 1, Len(sorted))

\* x inserted behind every element that does not sort after it
sortInsert(kind, b, sorted, x) ==
    insertAt(sorted, x,
             Cardinality({k \in 1..Len(sorted) : compareBlocks(kind, b, sorted[k], x) <= 0}))

RECURSIVE sortFrom(_, _, _, _, _)
sortFrom(kind, b, blocks, i, sorted) ==
    IF i > Len(blocks) THEN sorted
    ELSE sortFrom(kind, b, blocks, i + 1, sortInsert(kind, b, sorted, blocks[i]))

sortBlocks(kind, b, blocks) == sortFrom(kind, b, blocks, 1, <<>>)

\* the blocks held by an array
Members(blocks) == {blocks[k] : k \in 1..Len(blocks)}

---------------------------------------------------------------------------
(* constructAdjList *)

RECURSIVE adjInner(_, _, _, _)
adjInner(b, blocks, i, j) ==
    IF j > Len(blocks) THEN b
    ELSE IF conflict(b[blocks[i]], b[blocks[j]])
         THEN adjInner([b EXCEPT ![blocks[j]].neighbors = Append(@, blocks[i]),
                                 ![blocks[i]].neighbors = Append(@, blocks[j])],
                       blocks, i, j + 1)
         ELSE adjInner(b, blocks, i, j + 1)

RECURSIVE adjOuter(_, _, _)
adjOuter(b, blocks, i) ==
    IF i > Len(blocks) THEN b
    ELSE adjOuter(adjInner(b, blocks, i, i + 1), blocks, i + 1)

\* faulty variant: the outer loop starts at the second block
constructAdjListSkipFirst(b, blocks) == adjOuter(b, blocks, 2)

constructAdjList(b, blocks) == adjOuter(b, blocks, 1)

---------------------------------------------------------------------------
(* tinyqueue, as intervalScheduling2 uses it: a binary min-heap in an      *)
(* array (0-based positions in the library, 1-based here)                  *)

\* faulty variant: the queue is ordered by room index alone
compareRoomsByDepth(b, r1, r2) == b[r1].depth - b[r2].depth

\* the comparator handed to the queue: end time, then room index
compareRooms(b, r1, r2) ==
    IF b[r1].endMin - b[r2].endMin = 0
    THEN b[r1].depth - b[r2].depth
    ELSE b[r1].endMin - b[r2].endMin

RECURSIVE queueUp(_, _, _, _)
queueUp(b, data, pos, item) ==
    IF pos = 1 THEN [data EXCEPT ![1] = item]
    ELSE IF compareRooms(b, item, data[pos \div 2]) >= 0
         THEN [data EXCEPT ![pos] = item]
         ELSE queueUp(b, [data EXCEPT ![pos] = data[pos \div 2]], pos \div 2, item)

queuePush(b, data, item) == queueUp(b, Append(data, item), Len(data) + 1, item)

\* the smaller child of pos (pos has a left child)
queueChild(b, data, pos) ==
    IF 2 * pos + 1 <= Len(data) /\ compareRooms(b, data[2 * pos + 1], data[2 * pos]) < 0
    THEN 2 * pos + 1 ELSE 2 * pos

RECURSIVE queueDown(_, _, _, _)
RECURSIVE queueSink(_, _, _, _, _)
queueSink(b, data, pos, item, c) ==
    IF compareRooms(b, data[c], item) >= 0
    THEN [data EXCEPT ![pos] = item]
    ELSE queueDown(b, [data EXCEPT ![pos] = data[c]], c, item)

queueDown(b, data, pos, item) ==
    IF pos > Len(data) \div 2 THEN [data EXCEPT ![pos] = item]
    ELSE queueSink(b, data, pos, item, queueChild(b, data, pos))

\* the queue after pop() (the caller has read the top with peek())
queuePop(b, data) ==
    IF Len(data) <= 1 THEN <<>>
    ELSE queueDown(b, SubSeq(data, 1, Len(data) - 1), 1, data[Len(data)])

\* faulty variant: the last entry of the heap array is taken for its top
queuePeekLast(data) == data[Len(data)]

queuePeek(data) == data[1]

---------------------------------------------------------------------------
(* intervalScheduling: the modified (lowest room index) algorithm *)

\* the slot of `occupied` the inner loop selects for `block`, 0 when none
RECURSIVE pickRoom(_, _, _, _, _, _)
\* faulty variant: the free room seen last is taken, whatever its index
pickRoomLastFree(b, occupied, block, k, idx, minRoomIdx) ==
    IF k > Len(occupied) THEN idx
    ELSE IF b[occupied[k]].endMin <= b[block].startMin
         THEN pickRoom(b, occupied, block, k + 1, k, b[occupied[k]].depth)
         ELSE pickRoom(b, occupied, block, k + 1, idx, minRoomIdx)

pickRoom(b, occupied, block, k, idx, minRoomIdx) ==
    IF k > Len(occupied) THEN idx
    ELSE IF b[occupied[k]].endMin <= b[block].startMin
            /\ (idx = 0 \/ b[occupied[k]].depth < minRoomIdx)
         THEN pickRoom(b, occupied, block, k + 1, k, b[occupied[k]].depth)
         ELSE pickRoom(b, occupied, block, k + 1, idx, minRoomIdx)

RECURSIVE scheduleLoop(_, _, _, _, _)
RECURSIVE scheduleStep(_, _, _, _, _, _)
\* faulty variant: a reused room keeps its old representative in `occupied`
scheduleStepKeepsRoom(b, blocks, i, occupied, numRooms, idx) ==
    IF idx = 0
    THEN scheduleLoop([b EXCEPT ![blocks[i]].depth = numRooms + 1],
                      blocks, i + 1, Append(occupied, blocks[i]), numRooms + 1)
    ELSE scheduleLoop([b EXCEPT ![blocks[i]].depth = b[occupied[idx]].depth],
                      blocks, i + 1, occupied, numRooms)

\* the body of the outer loop once the room `idx` is selected
scheduleStep(b, blocks, i, occupied, numRooms, idx) ==
    IF idx = 0
    THEN scheduleLoop([b EXCEPT ![blocks[i]].depth = numRooms + 1],
                      blocks, i + 1, Append(occupied, blocks[i]), numRooms + 1)
    ELSE scheduleLoop([b EXCEPT ![blocks[i]].depth = b[occupied[idx]].depth],
                      blocks, i + 1, [occupied EXCEPT ![idx] = blocks[i]], numRooms)

scheduleLoop(b, blocks, i, occupied, numRooms) ==
    IF i > Len(blocks) THEN [b |-> b, blocks |-> blocks, total |-> numRooms + 1]
    ELSE scheduleStep(b, blocks, i, occupied, numRooms,
                      pickRoom(b, occupied, blocks[i], 1, 0, 0))

scheduleSorted(b, sorted) == scheduleLoop(b, sorted, 2, <<sorted[1]>>, 0)

intervalScheduling(b, blocks) ==
    IF Len(blocks) = 0 THEN [b |-> b, blocks |-> blocks, total |-> 0]
    ELSE scheduleSorted(b, sortBlocks("start", b, blocks))

---------------------------------------------------------------------------
(* intervalScheduling2: the classical algorithm on a priority queue *)

RECURSIVE schedule2Loop(_, _, _, _, _)
\* queue.push(block) once block.depth is assigned, and the next round
schedule2Push(b, blocks, i, queue, numRooms) ==
    schedule2Loop(b, blocks, i + 1, queuePush(b, queue, blocks[i]), numRooms)

\* faulty variant: a room that ends when the block starts counts as taken
schedule2LoopInclusive(b, blocks, i, queue, numRooms) ==
    IF i > Len(blocks) THEN [b |-> b, blocks |-> blocks, total |-> numRooms + 1]
    ELSE IF b[queuePeek(queue)].endMin >= b[blocks[i]].startMin
         THEN schedule2Push([b EXCEPT ![blocks[i]].depth = numRooms + 1],
                            blocks, i, queue, numRooms + 1)
         ELSE schedule2Push([b EXCEPT ![blocks[i]].depth = b[queuePeek(queue)].depth],
                            blocks, i, queuePop(b, queue), numRooms)

schedule2Loop(b, blocks, i, queue, numRooms) ==
    IF i > Len(blocks) THEN [b |-> b, blocks |-> blocks, total |-> numRooms + 1]
    ELSE IF b[queuePeek(queue)].endMin > b[blocks[i]].startMin
         THEN schedule2Push([b EXCEPT ![blocks[i]].depth = numRooms + 1],
                            blocks, i, queue, numRooms + 1)
         ELSE schedule2Push([b EXCEPT ![blocks[i]].depth = b[queuePeek(queue)].depth],
                            blocks, i, queuePop(b, queue), numRooms)

schedule2Sorted(b, sorted) == schedule2Loop(b, sorted, 2, <<sorted[1]>>, 0)

intervalScheduling2(b, blocks) ==
    IF Len(blocks) = 0 THEN [b |-> b, blocks |-> blocks, total |-> 0]
    ELSE schedule2Sorted(b, sortBlocks("start", b, blocks))

---------------------------------------------------------------------------
(* depthFirstSearchRec: path depth of the nodes below `start` *)

RECURSIVE depthFirstSearchRec(_, _, _)
RECURSIVE dfsNeighbors(_, _, _, _)

\* the loop over start.neighbors, from its k-th entry on
dfsNeighbors(b, start, maxDepth, k) ==
    IF k > Len(b[start].neighbors) THEN b
    ELSE IF ~b[b[start].neighbors[k]].visited
            /\ b[b[start].neighbors[k]].depth < b[start].depth
         THEN dfsNeighbors(depthFirstSearchRec(b, b[start].neighbors[k], maxDepth),
                           start, maxDepth, k + 1)
         ELSE dfsNeighbors(b, start, maxDepth, k + 1)

\* faulty variant: every node of the chain gets its own depth + 1
depthFirstSearchRecOwnDepth(b, start, maxDepth) ==
    dfsNeighbors([b EXCEPT ![start].visited = TRUE, ![start].pathDepth = b[start].depth + 1],
                 start, maxDepth, 1)

depthFirstSearchRec(b, start, maxDepth) ==
    dfsNeighbors([b EXCEPT ![start].visited = TRUE, ![start].pathDepth = maxDepth],
                 start, maxDepth, 1)

---------------------------------------------------------------------------
(* DFSFindFixed: [b |-> the blocks afterwards, r |-> the returned flag] *)

RECURSIVE DFSFindFixed(_, _)
RECURSIVE fixedNeighbors(_, _, _, _)

\* samePath of the loop body
samePath(b, start, adj) ==
    b[start].depth - b[adj].depth = 1 /\ b[start].pathDepth = b[adj].pathDepth

\* the loop goes on after the recursive call on the k-th neighbor returned `sub`
fixedAfter(sub, start, k, flag) == fixedNeighbors(sub.b, start, k + 1, sub.r \/ flag)

\* the loop over start.neighbors, from its k-th entry on, with the flag so far
fixedNeighbors(b, start, k, flag) ==
    IF k > Len(b[start].neighbors) THEN [b |-> b, r |-> flag]
    ELSE IF b[b[start].neighbors[k]].visited
         THEN fixedNeighbors(b, start, k + 1,
                  (b[b[start].neighbors[k]].isFixed /\ samePath(b, start, b[start].neighbors[k]))
                  \/ flag)
         ELSE IF samePath(b, start, b[start].neighbors[k])
              THEN fixedAfter(DFSFindFixed(b, b[start].neighbors[k]), start, k, flag)
              ELSE fixedNeighbors(b, start, k + 1, flag)

\* return (start.isFixed = flag)
fixedReturn(res, start) == [b |-> [res.b EXCEPT ![start].isFixed = res.r], r |-> res.r]

DFSFindFixed(b, start) ==
    IF b[start].depth = 0
    THEN [b |-> [b EXCEPT ![start].visited = TRUE, ![start].isFixed = TRUE], r |-> TRUE]
    ELSE fixedReturn(fixedNeighbors([b EXCEPT ![start].visited = TRUE], start, 1, FALSE),
                     start)

---------------------------------------------------------------------------
(* calculateMaxDepth *)

\* first loop: a search from every node not visited yet, deepest first
RECURSIVE maxDepthLoop(_, _, _)
\* faulty variant: a search starts with the depth of its root, not depth + 1
maxDepthLoopFromDepth(b, blocks, i) ==
    IF i > Len(blocks) THEN b
    ELSE IF ~b[blocks[i]].visited
         THEN maxDepthLoop(depthFirstSearchRec(b, blocks[i], b[blocks[i]].depth),
                           blocks, i + 1)
         ELSE maxDepthLoop(b, blocks, i + 1)

maxDepthLoop(b, blocks, i) ==
    IF i > Len(blocks) THEN b
    ELSE IF ~b[blocks[i]].visited
         THEN maxDepthLoop(depthFirstSearchRec(b, blocks[i], b[blocks[i]].depth + 1),
                           blocks, i + 1)
         ELSE maxDepthLoop(b, blocks, i + 1)

\* for (const node of blocks) node.visited = false
resetVisited(b, blocks) ==
    [i \in DOMAIN b |->
        IF i \in Members(blocks) THEN [b[i] EXCEPT !.visited = FALSE] ELSE b[i]]

\* node.neighbors.every(v => v.depth < node.depth)
isLocalTop(b, node) ==
    \A k \in 1..Len(b[node].neighbors) : b[b[node].neighbors[k]].depth < b[node].depth

\* last loop: fixed-block detection seeded at the local tops
RECURSIVE findFixedLoop(_, _, _)
findFixedLoop(b, blocks, i) ==
    IF i > Len(blocks) THEN b
    ELSE IF ~b[blocks[i]].visited /\ isLocalTop(b, blocks[i])
         THEN findFixedLoop(DFSFindFixed(b, blocks[i]).b, blocks, i + 1)
         ELSE findFixedLoop(b, blocks, i + 1)

\* the three loops over the blocks sorted by depth
maxDepthSorted(b, sorted) ==
    [b |-> findFixedLoop(resetVisited(maxDepthLoop(b, sorted, 1), sorted), sorted, 1),
     blocks |-> sorted]

\* faulty variant: the blocks are not sorted by depth before the searches
calculateMaxDepthUnsorted(b, blocks) == maxDepthSorted(b, blocks)

calculateMaxDepth(b, blocks) == maxDepthSorted(b, sortBlocks("depth", b, blocks))

---------------------------------------------------------------------------
(* BFS: [b |-> the blocks afterwards, comp |-> the component of `start`] *)

\* the loop over the neighbors of the node dequeued, from the k-th entry on
RECURSIVE bfsNeighbors(_, _, _, _)
\* faulty variant: fixed neighbors are collected as well
bfsNeighborsIgnoreFixed(b, componentNodes, nbrs, k) ==
    IF k > Len(nbrs) THEN [b |-> b, comp |-> componentNodes]
    ELSE IF ~b[nbrs[k]].visited
         THEN bfsNeighbors([b EXCEPT ![nbrs[k]].visited = TRUE],
                           Append(componentNodes, nbrs[k]), nbrs, k + 1)
         ELSE bfsNeighbors(b, componentNodes, nbrs, k + 1)

bfsNeighbors(b, componentNodes, nbrs, k) ==
    IF k > Len(nbrs) THEN [b |-> b, comp |-> componentNodes]
    ELSE IF ~b[nbrs[k]].visited /\ ~b[nbrs[k]].isFixed
         THEN bfsNeighbors([b EXCEPT ![nbrs[k]].visited = TRUE],
                           Append(componentNodes, nbrs[k]), nbrs, k + 1)
         ELSE bfsNeighbors(b, componentNodes, nbrs, k + 1)

RECURSIVE bfsLoop(_, _, _)
bfsNext(step, qIdx) == bfsLoop(step.b, step.comp, qIdx + 1)

bfsLoop(b, componentNodes, qIdx) ==
    IF qIdx > Len(componentNodes) THEN [b |-> b, comp |-> componentNodes]
    ELSE bfsNext(bfsNeighbors(b, componentNodes, b[componentNodes[qIdx]].neighbors, 1), qIdx)

\* faulty variant: the search stops at its start node
BFSStartOnly(b, start) == [b |-> [b EXCEPT ![start].visited = TRUE], comp |-> <<start>>]

BFS(b, start) == bfsLoop([b EXCEPT ![start].visited = TRUE], <<start>>, 1)

---------------------------------------------------------------------------
(* The width optimizer (buildGLPKModel and the external solver)            *)

\* the left edge of the nearest conflicting block of a higher column, from the
\* k-th neighbor of x on; m is the edge found so far
RECURSIVE lpEdge(_, _, _, _)
lpEdge(b, x, k, m) ==
    IF k > Len(b[x].neighbors) THEN m
    ELSE IF b[b[x].neighbors[k]].depth > b[x].depth
         THEN lpEdge(b, x, k + 1, RMin(m, b[b[x].neighbors[k]].left))
         ELSE lpEdge(b, x, k + 1, m)

\* what the solver returns for block x of a component: x keeps its left and
\* grows to the right up to the nearest conflicting block of a higher column
\* (or the right edge); a feasible point of the linear program of the design
lpWidth(b, x) == RSub(lpEdge(b, x, 1, <<1, 1>>), b[x].left)

\* buildGLPKModel(component): the program is built from the blocks as they
\* are at the call; the solve is pending until the solver answers
buildGLPKModel(b, component, pass, day) ==
    [pass |-> pass, day |-> day, comp |-> component, state |-> "pending",
     result |-> [k \in 1..Len(component) |->
                    [left |-> b[component[k]].left,
                     width |-> lpWidth(b, component[k])]]]

\* the answer of a solve written back into its blocks
RECURSIVE applyResult(_, _, _)
applyResult(b, solve, k) ==
    IF k > Len(solve.comp) THEN b
    ELSE applyResult([b EXCEPT ![solve.comp[k]].left = solve.result[k].left,
                               ![solve.comp[k]].width = solve.result[k].width],
                     solve, k + 1)

---------------------------------------------------------------------------
(* computeBlockPositions: the synchronous part for one weekday *)

\* the slot of block x in the array
indexOf(blocks, x) == CHOOSE k \in 1..Len(blocks) : blocks[k] = x

\* blocks.forEach((b, i) => (b.idx = i))
setIdx(b, blocks) ==
    [i \in DOMAIN b |->
        IF i \in Members(blocks) THEN [b[i] EXCEPT !.idx = indexOf(blocks, i) - 1] ELSE b[i]]

\* total <= 1: every block spans the full width
fullWidth(b, blocks) ==
    [i \in DOMAIN b |->
        IF i \in Members(blocks)
        THEN [b[i] EXCEPT !.left = <<0, 1>>, !.width = <<1, 1>>] ELSE b[i]]

\* faulty variant: the column is counted from one
setPositionsOneBased(b, blocks) ==
    [i \in DOMAIN b |->
        IF i \in Members(blocks)
        THEN [b[i] EXCEPT !.left = Rat(b[i].depth + 1, b[i].pathDepth),
                          !.width = Rat(1, b[i].pathDepth)]
        ELSE b[i]]

\* block.left = block.depth / block.pathDepth; block.width = 1.0 / block.pathDepth
setPositions(b, blocks) ==
    [i \in DOMAIN b |->
        IF i \in Members(blocks)
        THEN [b[i] EXCEPT !.left = Rat(b[i].depth, b[i].pathDepth),
                          !.width = Rat(1, b[i].pathDepth)]
        ELSE b[i]]

\* the loop handing every component of non-fixed blocks to the optimizer
RECURSIVE componentLoop(_, _, _, _, _, _)
\* promises.push(buildGLPKModel(component)) for the component BFS found
componentFound(found, blocks, i, promises, pass, day) ==
    componentLoop(found.b, blocks, i + 1,
                  Append(promises, buildGLPKModel(found.b, found.comp, pass, day)),
                  pass, day)

\* faulty variant: a block already collected starts a search of its own
componentLoopRevisits(b, blocks, i, promises, pass, day) ==
    IF i > Len(blocks) THEN [b |-> b, promises |-> promises]
    ELSE IF ~b[blocks[i]].isFixed
         THEN componentFound(BFS(b, blocks[i]), blocks, i, promises, pass, day)
         ELSE componentLoop(b, blocks, i + 1, promises, pass, day)

componentLoop(b, blocks, i, promises, pass, day) ==
    IF i > Len(blocks) THEN [b |-> b, promises |-> promises]
    ELSE IF ~b[blocks[i]].visited /\ ~b[blocks[i]].isFixed
         THEN componentFound(BFS(b, blocks[i]), blocks, i, promises, pass, day)
         ELSE componentLoop(b, blocks, i + 1, promises, pass, day)

\* the weekday's result once its components are dispatched
layoutResult(cl, blocks, total, entry) ==
    [b |-> cl.b, blocks |-> blocks, promises |-> cl.promises, total |-> total,
     entry |-> entry]

\* positions from the analysis `md`, then the components
layoutAnalysed(md, total, entry, pass, day) ==
    layoutResult(componentLoop(resetVisited(setPositions(md.b, md.blocks), md.blocks),
                               md.blocks, 1, <<>>, pass, day),
                 md.blocks, total, entry)

\* the weekday after intervalScheduling2 returned `sch`
layoutScheduled(sch, pass, day) ==
    IF sch.total <= 1
    THEN [b |-> fullWidth(sch.b, sch.blocks), blocks |-> sch.blocks,
          promises |-> <<>>, total |-> sch.total, entry |-> {}]
    ELSE layoutAnalysed(calculateMaxDepth(sch.b, sch.blocks), sch.total,
                        {x \in Members(sch.blocks) : sch.b[x].visited}, pass, day)

\* the body of `for (const blocks of days)`
layoutDay(b, blocks, pass, day) ==
    layoutScheduled(intervalScheduling2(constructAdjList(setIdx(b, blocks), blocks), blocks),
                    pass, day)

\* the loop over the weekdays, from weekday d on
RECURSIVE layoutDays(_, _, _, _, _, _, _)
layoutNext(r, ds, d, promises, totals, entry, pass) ==
    layoutDays(r.b, [ds EXCEPT ![d] = r.blocks], d + 1, promises \o r.promises,
               Append(totals, r.total), entry \cup r.entry, pass)

layoutDays(b, ds, d, promises, totals, entry, pass) ==
    IF d > Len(ds)
    THEN [b |-> b, days |-> ds, promises |-> promises, totals |-> totals, entry |-> entry]
    ELSE layoutNext(layoutDay(b, ds[d], pass, d), ds, d, promises, totals, entry, pass)

---------------------------------------------------------------------------
(* Schedule: the selected sections and the deferred compute *)

Keys == 1..NumKeys
Sections == 1..NumSections

\* _preview = null
NoPreview == <<>>

\* the values of All[key]: -1 (any section) or a Set of section numbers
AnySection == [any |-> TRUE, secs |-> {}]
SetOf(S) == [any |-> FALSE, secs |-> S]

\* delete A[key]
deleteKey(A, key) == [k \in DOMAIN A \ {key} |-> A[k]]

\* A[key] = v
setKey(A, key, v) == [k \in DOMAIN A \cup {key} |-> IF k = key THEN v ELSE A[k]]

\* the branch of update for section = -1
updateAny(A, key, remove) ==
    IF key \in DOMAIN A /\ A[key].any
    THEN IF remove THEN deleteKey(A, key) ELSE setKey(A, key, SetOf({}))
    ELSE setKey(A, key, AnySection)

\* the branch of update for a section number
updateSection(A, key, section, remove) ==
    IF key \in DOMAIN A /\ ~A[key].any
    THEN IF section \in A[key].secs
         THEN IF A[key].secs \ {section} = {} /\ remove
              THEN deleteKey(A, key)
              ELSE setKey(A, key, SetOf(A[key].secs \ {section}))
         ELSE setKey(A, key, SetOf(A[key].secs \cup {section}))
    ELSE setKey(A, key, SetOf({section}))

\* faulty variant: the key stays when its set becomes empty
updateAllKeepsKey(A, key, section, remove) ==
    IF section = -1 THEN updateAny(A, key, remove)
    ELSE updateSection(A, key, section, FALSE)

\* what update(key, section, remove) makes of All
updateAll(A, key, section, remove) ==
    IF section = -1 THEN updateAny(A, key, remove)
    ELSE updateSection(A, key, section, remove)

\* _computeSchedule() on the schedule state A, pv
privateComputeSchedule(A, pv) ==
    /\ computedFrom' = [All |-> A, preview |-> pv]
    /\ runs' = runs + 1

\* faulty variant: the pending timer is not cleared
computeScheduleNoClear(sync, A, pv) ==
    IF sync
    THEN /\ privateComputeSchedule(A, pv)
         /\ UNCHANGED <<timers, pendingCompute, timerSeq>>
    ELSE /\ timers' = timers \cup {timerSeq + 1}
         /\ pendingCompute' = timerSeq + 1
         /\ timerSeq' = timerSeq + 1
         /\ UNCHANGED <<computedFrom, runs>>

\* computeSchedule(sync) once the method has brought the schedule to A, pv
computeSchedule(sync, A, pv) ==
    IF sync
    THEN /\ timers' = timers \ {pendingCompute}
         /\ privateComputeSchedule(A, pv)
         /\ UNCHANGED <<pendingCompute, timerSeq>>
    ELSE /\ timers' = (timers \ {pendingCompute}) \cup {timerSeq + 1}
         /\ pendingCompute' = timerSeq + 1
         /\ timerSeq' = timerSeq + 1
         /\ UNCHANGED <<computedFrom, runs>>

\* history: the call just made
called(name, key, section, remove, sync) ==
    lastOp' = [name |-> name, key |-> key, section |-> section, remove |-> remove,
               before |-> All, sync |-> sync, runsBefore |-> runs, n |-> lastOp.n + 1]

\* Schedule.update(key, section, remove)
update(key, section, remove) ==
    /\ lastOp.n < MaxOps
    /\ All' = updateAll(All, key, section, remove)
    /\ computeSchedule(TRUE, updateAll(All, key, section, remove), previewed)
    /\ called("update", key, section, remove, TRUE)
    /\ UNCHANGED previewed
    /\ UNCHANGED nonUpdateVars

\* Schedule.preview(section)
preview(section) ==
    /\ lastOp.n < MaxOps
    /\ previewed' = section
    /\ computeSchedule(FALSE, All, section)
    /\ called("preview", section[1], section[2], TRUE, FALSE)
    /\ UNCHANGED All
    /\ UNCHANGED nonUpdateVars

\* Schedule.removePreview()
removePreview ==
    /\ lastOp.n < MaxOps
    /\ previewed' = NoPreview
    /\ computeSchedule(FALSE, All, NoPreview)
    /\ called("removePreview", 0, 0, TRUE, FALSE)
    /\ UNCHANGED All
    /\ UNCHANGED nonUpdateVars

\* the callback of timer t runs after its 10 ms
timerFires(t) ==
    /\ t \in timers
    /\ timers' = timers \ {t}
    /\ privateComputeSchedule(All, previewed)
    /\ UNCHANGED <<All, previewed, pendingCompute, timerSeq, lastOp>>
    /\ UNCHANGED nonUpdateVars

---------------------------------------------------------------------------
(* Utils.checkTimeConflict and Schedule.addEvent / deleteEvent.  A time
   dict is a function from weekdays to flat arrays [begin, end, begin, end, ..];
   an event is [days, start, end], the content of its days string. *)

\* Event.toTimeDict(): the one time block of the event on each of its days
toTimeDict(e) == [d \in e.days |-> <<e.start, e.end>>]

\* the condition of the innermost loop
blocksOverlap(begin, end, beginTime, endTime) ==
    \/ (begin <= beginTime /\ beginTime <= end)
    \/ (begin <= endTime /\ endTime <= end)
    \/ (begin >= beginTime /\ end <= endTime)

\* the positions i = 0, 2, 4, .. of a flat array, one-based
blockStarts(timeBlocks) == {i \in 1..Len(timeBlocks) : i % 2 = 1}

\* the loops return true at the first pair of blocks that meets the condition
checkTimeConflict(timeDict1, timeDict2) ==
    \E dayBlock \in DOMAIN timeDict1 :
        /\ dayBlock \in DOMAIN timeDict2
        /\ \E i \in blockStarts(timeDict1[dayBlock]), j \in blockStarts(timeDict2[dayBlock]) :
              blocksOverlap(timeDict1[dayBlock][i], timeDict1[dayBlock][i + 1],
                            timeDict2[dayBlock][j], timeDict2[dayBlock][j + 1])

NoEvent == [name |-> "none", event |-> <<>>, before |-> <<>>, threw |-> FALSE,
            checks |-> <<>>, runsBefore |-> 0, runsAfter |-> 0,
            timersBefore |-> {}, timersAfter |-> {}]

\* the loop of addEvent over this.events from position k on:
\* [threw |-> whether it threw, checks |-> the calls of checkTimeConflict made]
RECURSIVE addEventScan(_, _, _, _)
\* faulty variant: only the days strings are compared
addEventScanDaysOnly(newEvent, es, k, checks) ==
    IF k > Len(es) THEN [threw |-> FALSE, checks |-> checks]
    ELSE IF es[k] = newEvent THEN [threw |-> TRUE, checks |-> checks]
    ELSE addEventScan(newEvent, es, k + 1, checks)

addEventScan(newEvent, es, k, checks) ==
    IF k > Len(es) THEN [threw |-> FALSE, checks |-> checks]
    ELSE IF es[k] = newEvent THEN [threw |-> TRUE, checks |-> checks]
    ELSE IF checkTimeConflict(toTimeDict(newEvent), toTimeDict(es[k]))
         THEN [threw |-> TRUE,
               checks |-> Append(checks, [a |-> toTimeDict(newEvent), b |-> toTimeDict(es[k]),
                                          r |-> TRUE])]
         ELSE addEventScan(newEvent, es, k + 1,
                           Append(checks, [a |-> toTimeDict(newEvent),
                                           b |-> toTimeDict(es[k]), r |-> FALSE]))

\* the call that threw changed nothing but the history
addEventThrows(newEvent, scan) ==
    /\ lastEvent' = [name |-> "addEvent", event |-> newEvent, before |-> events,
                     threw |-> TRUE, checks |-> scan.checks,
                     runsBefore |-> runs, runsAfter |-> runs,
                     timersBefore |-> timers, timersAfter |-> timers]
    /\ UNCHANGED <<events, schedVars>>

\* this.events.push(newEvent); this.computeSchedule()
addEventPushes(newEvent, scan) ==
    /\ lastOp.n < MaxOps
    /\ Len(events) < MaxEvents
    /\ events' = Append(events, newEvent)
    /\ computeSchedule(TRUE, All, previewed)
    /\ called("addEvent", 0, 0, TRUE, TRUE)
    /\ lastEvent' = [name |-> "addEvent", event |-> newEvent, before |-> events,
                     threw |-> FALSE, checks |-> scan.checks,
                     runsBefore |-> runs, runsAfter |-> runs',
                     timersBefore |-> timers, timersAfter |-> timers']
    /\ UNCHANGED <<All, previewed>>

addEventScanned(newEvent, scan) ==
    IF scan.threw THEN addEventThrows(newEvent, scan) ELSE addEventPushes(newEvent, scan)

\* Schedule.addEvent(days, ..)
addEvent(newEvent) ==
    /\ addEventScanned(newEvent, addEventScan(newEvent, events, 1, <<>>))
    /\ UNCHANGED nonScheduleVars

\* the events left when the first one with the days string is spliced out
RECURSIVE spliceFirst(_, _, _)
spliceFirst(es, e, i) ==
    IF i > Len(es) THEN es
    ELSE IF es[i] = e THEN SubSeq(es, 1, i - 1) \o SubSeq(es, i + 1, Len(es))
    ELSE spliceFirst(es, e, i + 1)

\* Schedule.deleteEvent(days)
deleteEvent(e) ==
    /\ lastOp.n < MaxOps
    /\ events' = spliceFirst(events, e, 1)
    /\ computeSchedule(TRUE, All, previewed)
    /\ called("deleteEvent", 0, 0, TRUE, TRUE)
    /\ lastEvent' = [name |-> "deleteEvent", event |-> e, before |-> events,
                     threw |-> FALSE, checks |-> <<>>,
                     runsBefore |-> runs, runsAfter |-> runs',
                     timersBefore |-> timers, timersAfter |-> timers']
    /\ UNCHANGED <<All, previewed>>
    /\ UNCHANGED nonScheduleVars

---------------------------------------------------------------------------
(* SearchWorker.  A dictionary is the set of its course keys, every course
   with the sections SectionIds.  A query is identified by what the two
   searchers find for it; scores are in units of the smallest one, and the
   weights 1, 0.5, 0.8, 0.4 are taken times ten. *)

SectionIds == <<0, 1>>

\* courseSearcher.search(query): the courses up to query.k match, by title
\* when the key is even and by description otherwise
RECURSIVE courseSearch(_, _, _)
courseSearch(dict, query, c) ==
    IF c > NumCourses THEN <<>>
    ELSE IF c \in dict /\ c <= query.k
         THEN <<[item |-> c, score |-> 1 + ((c * query.m) % 3),
                 original |-> IF c % 2 = 0 THEN "title" ELSE "description"]>>
              \o courseSearch(dict, query, c + 1)
         ELSE courseSearch(dict, query, c + 1)

\* sectionSearcher.search(query): the first section of the courses above
\* query.j matches, and with query.two the second section of the odd ones
RECURSIVE sectionSearch(_, _, _)
sectionSearch(dict, query, c) ==
    IF c > NumCourses THEN <<>>
    ELSE IF c \in dict /\ c > query.j
         THEN <<[key |-> c, sid |-> 0, score |-> 1 + ((c + query.m) % 3),
                 original |-> IF c % 3 = 0 THEN "topic" ELSE "instructors"]>>
              \o (IF query.two /\ c % 2 = 1
                  THEN <<[key |-> c, sid |-> 1, score |-> 1, original |-> "topic"]>>
                  ELSE <<>>)
              \o sectionSearch(dict, query, c + 1)
         ELSE sectionSearch(dict, query, c + 1)

\* the position of key among the entries of courseScores, 0 when it has none
indexOfKey(scores, key) ==
    IF \E i \in 1..Len(scores) : scores[i].key = key
    THEN CHOOSE i \in 1..Len(scores) : scores[i].key = key
    ELSE 0

\* courseScores[key] = score: a new property goes last, an old one keeps its place
setScore(scores, key, score) ==
    IF indexOfKey(scores, key) = 0
    THEN Append(scores, [key |-> key, score |-> score])
    ELSE [scores EXCEPT ![indexOfKey(scores, key)].score = score]

\* for (const result of courseResults)
RECURSIVE courseScoresLoop(_, _, _)
courseScoresLoop(results, i, scores) ==
    IF i > Len(results) THEN scores
    ELSE IF indexOfKey(scores, results[i].item) = 0
    THEN courseScoresLoop(results, i + 1,
             Append(scores,
                    [key |-> results[i].item,
                     score |-> results[i].score
                                   * (IF results[i].original = "title" THEN 10 ELSE 5)]))
    ELSE courseScoresLoop(results, i + 1,
             setScore(scores, results[i].item,
                      results[i].score * (IF results[i].original = "title" THEN 10 ELSE 5)))

\* for (const result of sectionResults): if (courseScores[key]) the score is
\* added to the one the key has, else it is set
RECURSIVE sectionScoresLoop(_, _, _)
sectionScoresLoop(results, i, scores) ==
    IF i > Len(results) THEN scores
    ELSE IF /\ indexOfKey(scores, results[i].key) # 0
            /\ scores[indexOfKey(scores, results[i].key)].score # 0
    THEN sectionScoresLoop(results, i + 1,
             setScore(scores, results[i].key,
                      scores[indexOfKey(scores, results[i].key)].score
                          + results[i].score * (IF results[i].original = "topic" THEN 8 ELSE 4)))
    ELSE sectionScoresLoop(results, i + 1,
             setScore(scores, results[i].key,
                      results[i].score * (IF results[i].original = "topic" THEN 8 ELSE 4)))

\* courseMap[key] and sectionMap[key]; <<>> stands for undefined
courseMapAt(courseResults, key) ==
    IF \E i \in 1..Len(courseResults) : courseResults[i].item = key
    THEN <<courseResults[CHOOSE i \in 1..Len(courseResults) :
                            /\ courseResults[i].item = key
                            /\ \A j \in (i + 1)..Len(courseResults) :
                                  courseResults[j].item # key]>>
    ELSE <<>>
sectionMapAt(sectionResults, key) == SelectSeq(sectionResults, LAMBDA r : r.key = key)

\* the entry e put into a list sorted by (a, b) => b[1] - a[1], after its equals
RECURSIVE insertScore(_, _, _)
insertScore(sorted, e, i) ==
    IF i > Len(sorted) THEN Append(sorted, e)
    ELSE IF sorted[i].score < e.score
         THEN SubSeq(sorted, 1, i - 1) \o <<e>> \o SubSeq(sorted, i, Len(sorted))
         ELSE insertScore(sorted, e, i + 1)

RECURSIVE sortScores(_, _, _)
\* faulty variant: the comparator is a[1] - b[1]
RECURSIVE insertScoreAscending(_, _, _)
insertScoreAscending(sorted, e, i) ==
    IF i > Len(sorted) THEN Append(sorted, e)
    ELSE IF sorted[i].score > e.score
         THEN SubSeq(sorted, 1, i - 1) \o <<e>> \o SubSeq(sorted, i, Len(sorted))
         ELSE insertScoreAscending(sorted, e, i + 1)
sortScoresAscending(scores, i, sorted) ==
    IF i > Len(scores) THEN sorted
    ELSE sortScores(scores, i + 1, insertScoreAscending(sorted, scores[i], 1))

\* Object.entries(courseScores).sort((a, b) => b[1] - a[1])
sortScores(scores, i, sorted) ==
    IF i > Len(scores) THEN sorted
    ELSE sortScores(scores, i + 1, insertScore(sorted, scores[i], 1))

\* .slice(0, 12)
slice(entries, n) == SubSeq(entries, 1, IF Len(entries) < n THEN Len(entries) ELSE n)

\* the matches of the sections of a course: one list per sid of item.sids,
\* empty for a section that did not match; nothing when no section matched
combSecMatches(s) ==
    IF s = <<>> THEN <<>>
    ELSE [n \in 1..Len(SectionIds) |->
            IF \E i \in 1..Len(s) : s[i].sid = SectionIds[n]
            THEN <<s[CHOOSE i \in 1..Len(s) :
                        /\ s[i].sid = SectionIds[n]
                        /\ \A j \in 1..(i - 1) : s[j].sid # SectionIds[n]].original>>
            ELSE <<>>]

\* the tuple pushed for key
courseTuple(key, courseMatch, s) ==
    IF courseMatch # <<>>
    THEN [key |-> key, sids |-> SectionIds, match |-> <<courseMatch[1].original>>,
          secMatches |-> combSecMatches(s)]
    ELSE [key |-> key, sids |-> [n \in 1..Len(s) |-> s[n].sid], match |-> <<>>,
          secMatches |-> [n \in 1..Len(s) |-> <<s[n].original>>]]

\* for (const [key] of scoreEntries)
finalResults(scoreEntries, courseResults, sectionResults) ==
    [n \in 1..Len(scoreEntries) |->
        courseTuple(scoreEntries[n].key,
                    courseMapAt(courseResults, scoreEntries[n].key),
                    sectionMapAt(sectionResults, scoreEntries[n].key))]

\* the else branch of onmessage once the two searches returned
queryResults(courseResults, sectionResults) ==
    finalResults(slice(sortScores(sectionScoresLoop(sectionResults, 1,
                                      courseScoresLoop(courseResults, 1, <<>>)),
                                  1, <<>>),
                       ResultLimit),
                 courseResults, sectionResults)

\* the main thread posts a dictionary as its first message
postDict(dict) ==
    /\ sent = 0
    /\ inbox' = Append(inbox, [kind |-> "dict", dict |-> dict, query |-> <<>>])
    /\ sent' = sent + 1
    /\ UNCHANGED <<count, courseDict, posted, handled>>
    /\ UNCHANGED nonWorkerVars

\* the main thread posts a query
postQuery(query) ==
    /\ sent > 0
    /\ sent < MaxMsgs
    /\ inbox' = Append(inbox, [kind |-> "query", dict |-> {}, query |-> query])
    /\ sent' = sent + 1
    /\ UNCHANGED <<count, courseDict, posted, handled>>
    /\ UNCHANGED nonWorkerVars

\* onmessage for the message at the head of the queue
onmessage ==
    /\ inbox # <<>>
    /\ inbox' = Tail(inbox)
    /\ handled' = Append(handled, Head(inbox))
    /\ count' = count + 1
    /\ UNCHANGED sent
    /\ IF count = 0
       THEN /\ courseDict' = Head(inbox).dict
            /\ posted' = Append(posted, [type |-> "ready", results |-> <<>>])
       ELSE /\ posted' = Append(posted,
                            [type |-> "results",
                             results |-> queryResults(
                                 courseSearch(courseDict, Head(inbox).query, 1),
                                 sectionSearch(courseDict, Head(inbox).query, 1))])
            /\ UNCHANGED courseDict
    /\ UNCHANGED nonWorkerVars

---------------------------------------------------------------------------
(* models/Graph: depthFirstSearch on the conflict graph of computeConflict.
   Vertices are 1..n in the order of graph.keys(); parent 0 is undefined.
   A search state is [adj |-> the adjacency lists, v |-> the Vertex objects]. *)

\* new Vertex(i); visits is history: how often a search entered the vertex
NewVertex ==
    [visited |-> FALSE, depth |-> 0, pathDepth |-> 0, parent |-> 0, path |-> <<>>,
     visits |-> 0]

\* the list computeConflict builds for vertex i from the conflicting pairs E
adjacencyOf(n, E, i) == SelectSeq([j \in 1..n |-> j], LAMBDA j : j # i /\ {i, j} \in E)

\* Math.max
maxOf(a, b) == IF a >= b THEN a ELSE b

\* x put into a list sorted by (a, b) => graph.get(b).length - graph.get(a).length
RECURSIVE insertByBreadth(_, _, _, _)
insertByBreadth(adj, sorted, x, i) ==
    IF i > Len(sorted) THEN Append(sorted, x)
    ELSE IF Len(adj[sorted[i]]) < Len(adj[x])
         THEN SubSeq(sorted, 1, i - 1) \o <<x>> \o SubSeq(sorted, i, Len(sorted))
         ELSE insertByBreadth(adj, sorted, x, i + 1)

\* graph.get(start).sort(..)
RECURSIVE sortByBreadth(_, _, _, _)
sortByBreadth(adj, list, i, sorted) ==
    IF i > Len(list) THEN sorted
    ELSE sortByBreadth(adj, list, i + 1, insertByBreadth(adj, sorted, list[i], 1))

RECURSIVE traceBack(_, _, _, _)
\* the body of the trace-back loop once curParent.pathDepth is updated
traceBackStep(v, start, curParent, path) ==
    IF v[curParent].parent = 0
    THEN [v EXCEPT ![curParent].path = Append(@, path)]
    ELSE traceBack(v, start, v[curParent].parent, path)

\* faulty variant: the trace-back does not raise the pathDepth of the parents
traceBackKeepsPathDepth(v, start, curParent, path) ==
    traceBackStep(v, start, curParent, <<curParent>> \o path)

\* the while (true) loop that follows the parent pointers from curParent
traceBack(v, start, curParent, path) ==
    traceBackStep([v EXCEPT ![curParent].pathDepth = maxOf(v[start].pathDepth, @)],
                  start, curParent, <<curParent>> \o path)

RECURSIVE depthFirstSearchRecVertex(_, _)
\* the loop over the sorted neighbors of start, from its k-th entry on
RECURSIVE visitNeighbors(_, _, _, _, _)
visitNeighbors(g, start, neighbors, k, hasUnvisited) ==
    IF k > Len(neighbors) THEN [g |-> g, hasUnvisited |-> hasUnvisited]
    ELSE IF ~g.v[neighbors[k]].visited
         THEN visitNeighbors(
                  depthFirstSearchRecVertex(
                      [g EXCEPT !.v[neighbors[k]].depth = g.v[start].depth + 1,
                                !.v[neighbors[k]].parent = start],
                      neighbors[k]),
                  start, neighbors, k + 1, TRUE)
         ELSE visitNeighbors(g, start, neighbors, k + 1, hasUnvisited)

\* if (!hasUnvisited): the end of a DFS path
afterNeighbors(r, start) ==
    IF r.hasUnvisited THEN r.g
    ELSE [r.g EXCEPT !.v = traceBack(
              [r.g.v EXCEPT ![start].pathDepth = maxOf(r.g.v[start].depth, @)],
              start, start, <<>>)]

\* the search below start once its list is sorted and it is marked visited
searchFrom(g, start) ==
    afterNeighbors(visitNeighbors(g, start, g.adj[start], 1, FALSE), start)

\* depthFirstSearchRec(start, graph) of models/Graph
depthFirstSearchRecVertex(g, start) ==
    searchFrom([g EXCEPT !.adj[start] = sortByBreadth(g.adj, g.adj[start], 1, <<>>),
                         !.v[start].visited = TRUE,
                         !.v[start].visits = @ + 1],
               start)

RECURSIVE pickStart(_, _, _, _)
\* the for loop that selects the start node, 0 when every node is visited
pickStart(g, k, start, maxBreadth) ==
    IF k > Len(g.v) THEN start
    ELSE IF ~g.v[k].visited /\ Len(g.adj[k]) > maxBreadth
         THEN pickStart(g, k + 1, k, Len(g.adj[k]))
         ELSE pickStart(g, k + 1, start, maxBreadth)

\* the while (true) loop: [g |-> the graph afterwards, roots |-> history]
RECURSIVE searchTrees(_, _, _)
RECURSIVE searchNext(_, _)
searchTrees(g, rts, start) ==
    IF start = 0 THEN [g |-> g, roots |-> rts]
    ELSE searchNext(depthFirstSearchRecVertex(g, start),
                    Append(rts, [start |-> start,
                                 unvisited |-> {u \in 1..Len(g.v) : ~g.v[u].visited}]))
searchNext(g, rts) == searchTrees(g, rts, pickStart(g, 1, 0, -1))

depthFirstSearch(g) == searchNext(g, <<>>)

\* computeConflict up to the search: n fresh vertices, an edge for every
\* conflicting pair
buildGraph(n, E) ==
    /\ graphState = "none"
    /\ graph' = [i \in 1..n |-> adjacencyOf(n, E, i)]
    /\ vertices' = [i \in 1..n |-> NewVertex]
    /\ graphState' = "built"
    /\ UNCHANGED roots
    /\ UNCHANGED nonGraphVars

\* the state after the search returned r
searched(r) ==
    /\ graph' = r.g.adj
    /\ vertices' = r.g.v
    /\ roots' = r.roots

\* depthFirstSearch(graph)
runDepthFirstSearch ==
    /\ graphState = "built"
    /\ searched(depthFirstSearch([adj |-> graph, v |-> vertices]))
    /\ graphState' = "searched"
    /\ UNCHANGED nonGraphVars

---------------------------------------------------------------------------
(* store/profile and Store.selectSemester.  A profile name is a sequence:
   <<b>> is the name of semester b and Append(name, idx) is `${name} (${idx})`;
   <<>> stands for '' and undefined.  A stored profile is [name |-> the name
   written in it, semester |-> the id of its currentSemester, modified |->
   its modified time, 0 when it has none, origin |-> who wrote it].  Version
   numbers are left out. *)

NoName == <<>>
NoDelete == [name |-> NoName, idx |-> 0, before |-> <<>>, currentBefore |-> NoName,
             done |-> FALSE, returned |-> NoName, currentAfter |-> NoName,
             profilesAfter |-> <<>>, storageAfter |-> <<>>]

\* localStorage.setItem(name, data) and localStorage.removeItem(name)
setItem(store, name, data) ==
    [n \in DOMAIN store \cup {name} |-> IF n = name THEN data ELSE store[n]]
removeItem(store, name) == [n \in DOMAIN store \ {name} |-> store[n]]

\* canSync()
canSync == credentials

\* new Date(a.modified).getTime() < new Date(b.modified).getTime(); a missing
\* modified gives NaN, which compares false
timeLess(a, b) == a.modified # 0 /\ b.modified # 0 /\ a.modified < b.modified

\* the names of a Map or Set in a fixed iteration order: shorter names first,
\* names of one length by their digits
RECURSIVE nameRank(_)
nameRank(n) == IF n = <<>> THEN 0 ELSE 10 * nameRank(SubSeq(n, 1, Len(n) - 1)) + n[Len(n)]
firstName(S) ==
    CHOOSE n \in S : \A m \in S :
        Len(n) < Len(m) \/ (Len(n) = Len(m) /\ nameRank(n) <= nameRank(m))
RECURSIVE inOrder(_)
inOrder(S) == IF S = {} THEN <<>> ELSE <<firstName(S)>> \o inOrder(S \ {firstName(S)})

\* a change made while a call of syncProfiles is under way
markDirty(ss) ==
    [i \in DOMAIN ss |->
        IF ss[i].state \in {"fetching", "uploading", "refetching"}
        THEN [ss[i] EXCEPT !.dirty = TRUE] ELSE ss[i]]

\* syncProfiles() up to its first await, called when the local state is
\* prof, store: without credentials it returns at once
syncCalled(ss, prof, store) ==
    IF ~canSync THEN ss
    ELSE Append(ss, [state |-> "fetching", upload |-> <<>>, dirty |-> FALSE,
                     atCall |-> [profiles |-> prof, storage |-> store, remote |-> remote],
                     after |-> [profiles |-> prof, storage |-> store, remote |-> remote]])

\* while (this.profiles.includes(`${profileName} (${idx})`)) idx++
RECURSIVE freeIndex(_, _, _)
freeIndex(prof, profileName, idx) ==
    IF Append(profileName, idx) \in Members(prof)
    THEN freeIndex(prof, profileName, idx + 1)
    ELSE idx

\* the name addProfile stores the profile under
addedName(prof, profileName, confirmed) ==
    IF profileName \in Members(prof) /\ ~confirmed
    THEN Append(profileName, freeIndex(prof, profileName, 2))
    ELSE profileName

\* the list after addProfile: overwrite keeps it, anything else pushes
addedList(prof, profileName, confirmed) ==
    IF profileName \in Members(prof) /\ confirmed
    THEN prof
    ELSE Append(prof, addedName(prof, profileName, confirmed))

\* the effects of addProfile once the name and the list are known
addProfileAs(name, list, data, sw) ==
    /\ profiles' = list
    /\ storage' = setItem(storage, name, data)
    /\ current' = IF sw THEN name ELSE current
    /\ syncs' = syncCalled(markDirty(syncs), list, setItem(storage, name, data))

\* Profile.addProfile(raw, fallbackName, sw), with the answer to the prompt
addProfile(rawName, fallbackName, semester, sw, confirmed) ==
    /\ clock < MaxProfileOps
    /\ Len(profiles) < MaxProfiles
    /\ ~canSync \/ Len(syncs) < MaxSyncs
    /\ clock' = clock + 1
    /\ addProfileAs(addedName(profiles, IF rawName # NoName THEN rawName ELSE fallbackName,
                              confirmed),
                    addedList(profiles, IF rawName # NoName THEN rawName ELSE fallbackName,
                              confirmed),
                    [name |-> addedName(profiles,
                                        IF rawName # NoName THEN rawName ELSE fallbackName,
                                        confirmed),
                     semester |-> semester, modified |-> clock + 1, origin |-> "local"],
                    sw)
    /\ UNCHANGED <<credentials, storeSemester, remote, pendingDelete, lastDelete>>
    /\ UNCHANGED nonProfileVars

\* the first profile of the list whose stored currentSemester is the target,
\* NoName when there is none
RECURSIVE profileOfSemester(_, _, _, _)
profileOfSemester(prof, store, target, i) ==
    IF i > Len(prof) THEN NoName
    ELSE IF prof[i] \in DOMAIN store /\ store[prof[i]].semester = target
         THEN prof[i]
         ELSE profileOfSemester(prof, store, target, i + 1)

\* the name selectSemester creates a profile under
createdName(prof, target, confirmed) ==
    IF <<target>> \in Members(prof) /\ ~confirmed THEN Append(<<target>>, 2) ELSE <<target>>

\* the branch of selectSemester that creates a profile for the target
createProfile(target, confirmed) ==
    /\ Len(profiles) < MaxProfiles
    /\ profiles' = IF <<target>> \in Members(profiles) /\ confirmed
                   THEN profiles
                   ELSE Append(profiles, createdName(profiles, target, confirmed))
    /\ current' = createdName(profiles, target, confirmed)
    /\ storage' = setItem(storage, createdName(profiles, target, confirmed),
                          [name |-> createdName(profiles, target, confirmed),
                           semester |-> target, modified |-> 0, origin |-> "local"])

\* Store.selectSemester(target) for a target other than the current semester,
\* with the answer to the prompt; loadProfile makes the target current
selectSemester(target, confirmed) ==
    /\ clock < MaxProfileOps
    /\ storeSemester # target
    /\ clock' = clock + 1
    /\ IF profileOfSemester(profiles, storage, target, 1) = NoName
       THEN createProfile(target, confirmed)
       ELSE /\ current' = storage[profileOfSemester(profiles, storage, target, 1)].name
            /\ UNCHANGED <<profiles, storage>>
    /\ storeSemester' = target
    /\ syncs' = markDirty(syncs)
    /\ UNCHANGED <<credentials, remote, pendingDelete, lastDelete>>
    /\ UNCHANGED nonProfileVars

\* this.profiles.splice(idx, 1), idx counted from 1
splice(list, idx) == SubSeq(list, 1, idx - 1) \o SubSeq(list, idx + 1, Len(list))

\* profiles[idx] for an idx counted from 0; undefined outside the list
at(list, idx) == IF idx + 1 \in DOMAIN list THEN list[idx + 1] ELSE NoName

\* what deleteProfile selects when the deleted profile was the current one:
\* list is the list after the splice, idx counted from 0
selectedAfterDelete(list, idx) ==
    IF idx = Len(list) THEN at(list, idx - 1) ELSE at(list, idx)

\* the end of deleteProfile(name, idx), reached at once or after the await
deleteReturns(name, idx, record) ==
    /\ current' = IF name = current THEN selectedAfterDelete(profiles', idx) ELSE current
    /\ lastDelete' = [record EXCEPT
                         !.done = TRUE,
                         !.returned = IF name = current
                                      THEN selectedAfterDelete(profiles', idx) ELSE NoName,
                         !.currentAfter = current',
                         !.profilesAfter = profiles',
                         !.storageAfter = storage']

\* Profile.deleteProfile(profiles[idx], idx), idx counted from 0
deleteProfile(idx) ==
    /\ clock < MaxProfileOps
    /\ pendingDelete = <<>>
    /\ idx + 1 \in DOMAIN profiles
    /\ clock' = clock + 1
    /\ profiles' = splice(profiles, idx + 1)
    /\ storage' = removeItem(storage, profiles[idx + 1])
    /\ syncs' = markDirty(syncs)
    /\ IF canSync
       THEN /\ pendingDelete' = <<[name |-> profiles[idx + 1], idx |-> idx]>>
            /\ lastDelete' = [NoDelete EXCEPT !.name = profiles[idx + 1], !.idx = idx,
                                              !.before = profiles, !.currentBefore = current]
            /\ UNCHANGED current
       ELSE /\ deleteReturns(profiles[idx + 1], idx,
                             [NoDelete EXCEPT !.name = profiles[idx + 1], !.idx = idx,
                                              !.before = profiles, !.currentBefore = current])
            /\ UNCHANGED pendingDelete
    /\ UNCHANGED <<credentials, storeSemester, remote>>
    /\ UNCHANGED nonProfileVars

\* the backend answers the delete request: the profile is gone there, and
\* deleteProfile runs to its end
deleteResolves ==
    /\ pendingDelete # <<>>
    /\ remote' = removeItem(remote, pendingDelete[1].name)
    /\ pendingDelete' = <<>>
    /\ UNCHANGED <<profiles, storage, credentials, storeSemester, clock>>
    /\ deleteReturns(pendingDelete[1].name, pendingDelete[1].idx, lastDelete)
    /\ syncs' = markDirty(syncs)
    /\ UNCHANGED nonProfileVars

\* the user logs in: username and credential are stored
login ==
    /\ ~credentials
    /\ credentials' = TRUE
    /\ UNCHANGED <<profiles, current, storage, storeSemester, remote, clock, syncs,
                   pendingDelete, lastDelete>>
    /\ UNCHANGED nonProfileVars

\* another device uploads a profile to the backend
remoteUpload(name, semester, modified) ==
    /\ clock < MaxProfileOps
    /\ clock' = clock + 1
    /\ remote' = setItem(remote, name,
                         [name |-> name, semester |-> semester, modified |-> modified,
                          origin |-> "remote"])
    /\ syncs' = markDirty(syncs)
    /\ UNCHANGED <<profiles, current, storage, credentials, storeSemester,
                   pendingDelete, lastDelete>>
    /\ UNCHANGED nonProfileVars

\* Profile.syncProfiles() called on its own
syncProfiles ==
    /\ ~canSync \/ Len(syncs) < MaxSyncs
    /\ syncs' = syncCalled(syncs, profiles, storage)
    /\ UNCHANGED <<profiles, current, storage, credentials, storeSemester, remote, clock,
                   pendingDelete, lastDelete>>
    /\ UNCHANGED nonProfileVars

\* the loop over remoteProfMap from its k-th name on:
\* [profiles, storage, needUpload] afterwards
RECURSIVE mergeRemote(_, _, _, _, _)
\* the body of the loop for a name that localNames holds; reading the modified
\* time of a profile that is not stored throws
mergeKnown(m, remoteProfMap, names, localNames, k) ==
    IF names[k] \notin DOMAIN m.storage
    THEN [m EXCEPT !.threw = TRUE]
    ELSE IF timeLess(m.storage[names[k]], remoteProfMap[names[k]])
    THEN mergeRemote([m EXCEPT !.storage = setItem(@, names[k], remoteProfMap[names[k]])],
                     remoteProfMap, names, localNames, k + 1)
    ELSE IF timeLess(remoteProfMap[names[k]], m.storage[names[k]])
    THEN mergeRemote([m EXCEPT !.needUpload = Append(@, names[k])],
                     remoteProfMap, names, localNames, k + 1)
    ELSE mergeRemote(m, remoteProfMap, names, localNames, k + 1)

\* faulty variant: a name the backend alone holds is stored but not listed
mergeRemoteUnlisted(m, remoteProfMap, names, localNames, k) ==
    IF k > Len(names) THEN m
    ELSE IF names[k] \in localNames
    THEN mergeKnown(m, remoteProfMap, names, localNames, k)
    ELSE mergeRemote([m EXCEPT !.storage = setItem(@, names[k], remoteProfMap[names[k]])],
                     remoteProfMap, names, localNames, k + 1)

mergeRemote(m, remoteProfMap, names, localNames, k) ==
    IF k > Len(names) THEN m
    ELSE IF names[k] \in localNames
    THEN mergeKnown(m, remoteProfMap, names, localNames, k)
    ELSE mergeRemote([m EXCEPT !.storage = setItem(@, names[k], remoteProfMap[names[k]]),
                               !.profiles = Append(@, names[k])],
                     remoteProfMap, names, localNames, k + 1)

\* the loop over localNames: the names the backend does not hold are uploaded
mergeLocal(m, remoteProfMap, localNames) ==
    IF m.threw THEN m
    ELSE [m EXCEPT !.needUpload = @ \o inOrder(localNames \ DOMAIN remoteProfMap)]

\* needUpload.map(p => ({name: p, profile: localStorage.getItem(p)}))
uploadRequest(m) ==
    [n \in {name \in Members(m.needUpload) : name \in DOMAIN m.storage} |-> m.storage[n]]

\* the state after the merge m of call i
merged(i, m) ==
    /\ profiles' = m.profiles
    /\ storage' = m.storage
    /\ syncs' = [(IF m.profiles # profiles \/ m.storage # storage
                  THEN markDirty(syncs) ELSE syncs)
                    EXCEPT ![i].state = IF m.threw THEN "failed" ELSE "uploading",
                           ![i].upload = uploadRequest(m),
                           ![i].dirty = syncs[i].dirty]

\* the first fetchRemoteProfiles of call i resolves: both loops run and the
\* upload is requested
fetchResolves(i) ==
    /\ syncs[i].state = "fetching"
    /\ merged(i, mergeLocal(mergeRemote([profiles |-> profiles, storage |-> storage,
                                         needUpload |-> <<>>, threw |-> FALSE],
                                        remote, inOrder(DOMAIN remote),
                                        Members(profiles), 1),
                            remote, Members(profiles)))
    /\ UNCHANGED <<current, credentials, storeSemester, remote, clock, pendingDelete,
                   lastDelete>>
    /\ UNCHANGED nonProfileVars

\* the backend stores the upload of call i, and the call fetches again
uploadResolves(i) ==
    /\ syncs[i].state = "uploading"
    /\ remote' = [n \in DOMAIN remote \cup DOMAIN syncs[i].upload |->
                     IF n \in DOMAIN syncs[i].upload THEN syncs[i].upload[n] ELSE remote[n]]
    /\ syncs' = [(IF DOMAIN syncs[i].upload # {} THEN markDirty(syncs) ELSE syncs)
                    EXCEPT ![i].state = "refetching", ![i].dirty = syncs[i].dirty]
    /\ UNCHANGED <<profiles, current, storage, credentials, storeSemester, clock,
                   pendingDelete, lastDelete>>
    /\ UNCHANGED nonProfileVars

\* the second fetchRemoteProfiles of call i resolves: syncProfiles returns
refetchResolves(i) ==
    /\ syncs[i].state = "refetching"
    /\ syncs' = [syncs EXCEPT ![i].state = "done",
                              ![i].after = [profiles |-> profiles, storage |-> storage,
                                            remote |-> remote]]
    /\ UNCHANGED <<profiles, current, storage, credentials, storeSemester, remote, clock,
                   pendingDelete, lastDelete>>
    /\ UNCHANGED nonProfileVars

---------------------------------------------------------------------------
(* The state machine *)

Init ==
    /\ days = [d \in 1..NumDays |-> <<>>]
    /\ blk = <<>>
    /\ calls = <<>>
    /\ solves = <<>>
    /\ ret = <<>>
    /\ atCall = <<>>
    /\ entryVisited = {}
    \* new Schedule(): All = {}, _preview = null, pendingCompute = 0, and the
    \* constructor's computeSchedule() has run
    /\ All = <<>>
    /\ previewed = NoPreview
    /\ pendingCompute = 0
    /\ timers = {}
    /\ timerSeq = 0
    /\ computedFrom = [All |-> <<>>, preview |-> NoPreview]
    /\ runs = 1
    /\ lastOp = [name |-> "constructor", key |-> 0, section |-> 0, remove |-> TRUE,
                 before |-> <<>>, sync |-> TRUE, runsBefore |-> 0, n |-> 0]
    \* events = []
    /\ events = <<>>
    /\ lastEvent = NoEvent
    \* the worker is loaded: count = 0, no searcher yet
    /\ count = 0
    /\ courseDict = {}
    /\ inbox = <<>>
    /\ posted = <<>>
    /\ handled = <<>>
    /\ sent = 0
    \* no conflict graph is built yet
    /\ graph = <<>>
    /\ vertices = <<>>
    /\ roots = <<>>
    /\ graphState = "none"
    \* a first visit: no profile, no credentials, nothing on the backend
    /\ profiles = <<>>
    /\ current = NoName
    /\ storage = <<>>
    /\ credentials = FALSE
    /\ storeSemester = 0
    /\ remote = <<>>
    /\ clock = 0
    /\ syncs = <<>>
    /\ pendingDelete = <<>>
    /\ lastDelete = NoDelete

NumBlocks == Cardinality(DOMAIN blk)

\* Schedule.placeHelper for a meeting on weekday d whose times parse to s and
\* e: it returns when s = e and pushes a fresh block otherwise
placeHelper(d, s, e) ==
    /\ calls = <<>> /\ ret = <<>>
    /\ NumBlocks < MaxBlocks
    /\ d > 1 => Len(days[d]) < MaxOtherBlocks
    /\ IF s = e
       THEN UNCHANGED <<blk, days>>
       ELSE /\ blk' = blk @@ (<<d, Len(days[d]) + 1>> :> NewScheduleBlock(s, e))
            /\ days' = [days EXCEPT ![d] = Append(@, <<d, Len(days[d]) + 1>>)]
    /\ UNCHANGED <<calls, solves, ret, atCall, entryVisited>>
    /\ UNCHANGED nonLayoutVars

\* the state after the synchronous part returned r
dispatched(r) ==
    /\ blk' = r.b
    /\ days' = r.days
    /\ solves' = solves \o r.promises
    /\ ret' = r.totals
    /\ entryVisited' = r.entry

\* a call of computeBlockPositions, up to its await
computeBlockPositions ==
    /\ Len(calls) < MaxPasses
    /\ calls = <<>> => ret = <<>>
    /\ calls # <<>> => NumBlocks <= MaxRepeatBlocks
    /\ dispatched(layoutDays(blk, days, 1, <<>>, <<>>, {}, Len(calls) + 1))
    /\ calls' = Append(calls, [state |-> "awaiting",
                                \* history: no solve was pending at the call
                                idle |-> \A i \in 1..Len(solves) : solves[i].state # "pending"])
    /\ atCall' = blk
    /\ UNCHANGED nonLayoutVars

\* the solver answers solve i: the result is written into the component
solveDone(i) ==
    /\ solves[i].state = "pending"
    /\ blk' = applyResult(blk, solves[i], 1)
    /\ solves' = [solves EXCEPT ![i].state = "done"]
    /\ UNCHANGED <<days, calls, ret, atCall, entryVisited>>
    /\ UNCHANGED nonLayoutVars

\* the solver fails on solve i: nothing is written
solveFailed(i) ==
    /\ solves[i].state = "pending"
    /\ solves' = [solves EXCEPT ![i].state = "failed"]
    /\ UNCHANGED <<days, blk, calls, ret, atCall, entryVisited>>
    /\ UNCHANGED nonLayoutVars

\* faulty variant: the call returns without joining its solves
settleWithoutJoin(p) ==
    /\ calls[p].state = "awaiting"
    /\ calls' = [calls EXCEPT ![p].state = "fulfilled"]
    /\ UNCHANGED <<days, blk, solves, ret, atCall, entryVisited>>
    /\ UNCHANGED nonLayoutVars

\* await Promise.all(promises) of call p returns
settle(p) ==
    /\ calls[p].state = "awaiting"
    /\ \A i \in 1..Len(solves) : solves[i].pass = p => solves[i].state # "pending"
    /\ calls' = [calls EXCEPT ![p].state = "fulfilled"]
    /\ UNCHANGED <<days, blk, solves, ret, atCall, entryVisited>>
    /\ UNCHANGED nonLayoutVars

\* the state after a scheduler alone ran on weekday d and returned r
scheduled(r, d, name) ==
    /\ blk' = r.b
    /\ days' = [days EXCEPT ![d] = r.blocks]
    /\ ret' = <<d, r.total, name>>
    /\ UNCHANGED <<calls, solves, atCall, entryVisited>>
    /\ UNCHANGED nonLayoutVars

\* intervalScheduling(days[d]) on fresh blocks
runIntervalScheduling(d) ==
    /\ calls = <<>> /\ ret = <<>>
    /\ scheduled(intervalScheduling(blk, days[d]), d, "intervalScheduling")

\* intervalScheduling2(days[d]) on fresh blocks
runIntervalScheduling2(d) ==
    /\ calls = <<>> /\ ret = <<>>
    /\ scheduled(intervalScheduling2(blk, days[d]), d, "intervalScheduling2")

Intervals == {iv \in (0..MaxTime) \X (0..MaxTime) : iv[1] < iv[2]}

Next ==
    \/ \E d \in 1..NumDays, iv \in Intervals : placeHelper(d, iv[1], iv[2])
    \/ computeBlockPositions
    \/ \E i \in 1..Len(solves) : solveDone(i)
    \/ \E i \in 1..Len(solves) : solveFailed(i)
    \/ \E p \in 1..Len(calls) : settle(p)

Spec == Init /\ [][Next]_vars

\* the two schedulers on their own, on the blocks of one weekday
NextSched ==
    \/ \E d \in 1..NumDays, iv \in Intervals : placeHelper(d, iv[1], iv[2])
    \/ \E d \in 1..NumDays : runIntervalScheduling(d)
    \/ \E d \in 1..NumDays : runIntervalScheduling2(d)

SpecSched == Init /\ [][NextSched]_vars

\* placeHelper on its own, for meetings with any pair of parsed times
NextPlace ==
    \E d \in 1..NumDays, s \in 0..MaxTime, e \in 0..MaxTime : placeHelper(d, s, e)

SpecPlace == Init /\ [][NextPlace]_vars

\* the methods of one Schedule and its timer
NextSchedule ==
    \/ \E key \in Keys, section \in Sections \cup {-1}, remove \in BOOLEAN :
          update(key, section, remove)
    \/ \E key \in Keys, section \in Sections : preview(<<key, section>>)
    \/ removePreview
    \/ \E t \in 1..timerSeq : timerFires(t)

\* a timer that is set fires unless it is cleared first
SpecSchedule == Init /\ [][NextSchedule]_vars /\ WF_vars(\E t \in 1..timerSeq : timerFires(t))

\* the days strings a user can enter: a non-empty set of weekdays and a time
\* range that parseTimeAsInt reads as start < end
EventInputs == {e \in [days : SUBSET (1..NumDays), start : 0..MaxTime, end : 0..MaxTime] :
                   e.days # {} /\ e.start < e.end}

\* the events of one Schedule, with the preview and its timer
NextEvents ==
    \/ \E e \in EventInputs : addEvent(e)
    \/ \E e \in EventInputs : deleteEvent(e)
    \/ \E key \in Keys, section \in Sections : preview(<<key, section>>)
    \/ \E t \in 1..timerSeq : timerFires(t)

SpecEvents == Init /\ [][NextEvents]_vars

\* the dictionaries and the queries posted to the worker
Dicts == {1..n : n \in {0, 2, NumCourses}}
Queries == [k : {0, 6, NumCourses}, j : {0, 3, NumCourses}, m : 1..3, two : BOOLEAN]

\* the search worker and the thread that posts to it
NextWorker ==
    \/ \E dict \in Dicts : postDict(dict)
    \/ \E query \in Queries : postQuery(query)
    \/ onmessage

SpecWorker == Init /\ [][NextWorker]_vars

\* the conflicting pairs among n blocks
Pairs(n) == {{i, j} : i, j \in 1..n} \ {{i} : i \in 1..n}

\* the conflict graph of one weekday and its search
NextGraph ==
    \/ \E n \in 0..NumVertices : \E E \in SUBSET Pairs(n) : buildGraph(n, E)
    \/ runDepthFirstSearch

SpecGraph == Init /\ [][NextGraph]_vars

\* the names a raw profile or a semester can carry
ProfileNames == {<<b>> : b \in 1..NumNames} \cup {<<1, 2>>}

\* addProfile and selectSemester on a browser without credentials
NextNames ==
    \/ \E rawName \in ProfileNames \cup {NoName}, semester \in 1..NumNames,
          sw \in BOOLEAN, confirmed \in BOOLEAN :
          addProfile(rawName, <<1>>, semester, sw, confirmed)
    \/ \E target \in 1..NumNames, confirmed \in BOOLEAN : selectSemester(target, confirmed)

SpecNames == Init /\ [][NextNames]_vars

\* the profile methods, the backend and another device
NextProfile ==
    \/ \E rawName \in {<<b>> : b \in 1..NumNames}, sw \in BOOLEAN, confirmed \in BOOLEAN :
          addProfile(rawName, <<1>>, 1, sw, confirmed)
    \/ \E idx \in 0..(MaxProfiles - 1) : deleteProfile(idx)
    \/ deleteResolves
    \/ login
    \/ \E name \in {<<b>> : b \in 1..NumNames}, modified \in 1..MaxProfileOps :
          remoteUpload(name, 1, modified)
    \/ syncProfiles
    \/ \E i \in 1..Len(syncs) : fetchResolves(i)
    \/ \E i \in 1..Len(syncs) : uploadResolves(i)
    \/ \E i \in 1..Len(syncs) : refetchResolves(i)

SpecProfile == Init /\ [][NextProfile]_vars

---------------------------------------------------------------------------
(* Vocabulary of the properties *)

\* two distinct blocks of one weekday whose time intervals overlap
Conflicting(x, y) == x # y /\ x[1] = y[1] /\ conflict(blk[x], blk[y])

\* left and width as the depth/path analysis sets them
AnalysisLeft(x) == Rat(blk[x].depth, blk[x].pathDepth)
AnalysisWidth(x) == Rat(1, blk[x].pathDepth)

\* [l1, l1 + w1) and [l2, l2 + w2) do not meet
Disjoint(l1, w1, l2, w2) == RLe(RAdd(l1, w1), l2) \/ RLe(RAdd(l2, w2), l1)

\* the first call on fresh blocks has run, and no solve has written yet
AnalysedFresh == Len(calls) = 1 /\ \A i \in 1..Len(solves) : solves[i].state # "done"

\* the largest number of blocks of an array active at one instant
ActiveAt(blocks, t) ==
    Cardinality({x \in Members(blocks) : blk[x].startMin <= t /\ t < blk[x].endMin})
MaxActive(blocks) ==
    CHOOSE n \in 0..Len(blocks) :
        /\ \E t \in 0..MaxTime : ActiveAt(blocks, t) = n
        /\ \A t \in 0..MaxTime : ActiveAt(blocks, t) <= n

\* the depths in use on an array
DepthsOf(blocks) == {blk[x].depth : x \in Members(blocks)}

---------------------------------------------------------------------------
(* Properties *)

\* C1: after the depth/path analysis of the first call on fresh blocks, any two
\* blocks of a weekday whose time intervals overlap have left = depth/pathDepth
\* and width = 1/pathDepth, and their ranges [left, left + width) are disjoint.
C1_NoOverlapAfterAnalysis ==
    AnalysedFresh =>
        \A x, y \in DOMAIN blk :
            Conflicting(x, y) =>
                /\ blk[x].left = AnalysisLeft(x)
                /\ blk[x].width = AnalysisWidth(x)
                /\ Disjoint(blk[x].left, blk[x].width, blk[y].left, blk[y].width)

\* two overlapping blocks on chains of different length have been laid out
C1_Witness ==
    /\ AnalysedFresh
    /\ \E x, y \in DOMAIN blk :
          /\ Conflicting(x, y)
          /\ blk[x].pathDepth # blk[y].pathDepth
          /\ blk[x].depth > 0

\* C2: after intervalScheduling or intervalScheduling2 returned on the fresh
\* blocks of a weekday, no two blocks whose intervals conflict share a depth.
C2_ConflictsGetDistinctDepths ==
    ret # <<>> =>
        \A x, y \in Members(days[ret[1]]) :
            Conflicting(x, y) => blk[x].depth # blk[y].depth

\* the greedy scheduler used three columns and put a later block into a used one
C2_Witness ==
    /\ ret # <<>>
    /\ ret[3] = "intervalScheduling"
    /\ ret[2] = 3
    /\ \E x, y \in Members(days[ret[1]]) : Conflicting(x, y)
    /\ \E x, y \in Members(days[ret[1]]) :
          x # y /\ ~Conflicting(x, y) /\ blk[x].depth = blk[y].depth /\ blk[x].depth > 0

\* C3: on a non-empty weekday of fresh blocks the count a scheduler returns is
\* the number of distinct depths it assigned, and that is the largest number of
\* blocks active at one instant.
C3_ColumnCountIsMaxActive ==
    (ret # <<>> /\ Len(days[ret[1]]) > 0) =>
        /\ ret[2] = Cardinality(DepthsOf(days[ret[1]]))
        /\ ret[2] = MaxActive(days[ret[1]])

\* the heap scheduler laid five blocks into three columns
C3_Witness ==
    /\ ret # <<>>
    /\ ret[3] = "intervalScheduling2"
    /\ Len(days[ret[1]]) = 5
    /\ ret[2] = 3
    /\ MaxActive(days[ret[1]]) = 3

\* the solves dispatched by call p, and those of weekday d among them
SolvesOf(p) == {i \in 1..Len(solves) : solves[i].pass = p}
SolvesOfDay(p, d) == {i \in SolvesOf(p) : solves[i].day = d}

\* the latest call started when no earlier solve was outstanding
LatestIdle == calls # <<>> /\ calls[Len(calls)].idle

\* x has the position the analysis of the latest call gave it
HasAnalysisPosition(x) ==
    IF ret[x[1]] <= 1
    THEN blk[x].left = <<0, 1>> /\ blk[x].width = <<1, 1>>
    ELSE blk[x].left = AnalysisLeft(x) /\ blk[x].width = AnalysisWidth(x)

\* how often y is listed in a neighbor list
Count(nbrs, y) == Cardinality({k \in DOMAIN nbrs : nbrs[k] = y})

\* the non-fixed blocks of weekday d and the connected components of the
\* conflict graph restricted to them
NonFixed(d) == {x \in Members(days[d]) : ~blk[x].isFixed}
RECURSIVE ReachFrom(_, _)
ReachFrom(S, R) ==
    IF \E y \in S \ R : \E x \in R : Conflicting(x, y)
    THEN ReachFrom(S, R \cup {y \in S : \E x \in R : Conflicting(x, y)})
    ELSE R
NonFixedComponents(d) == {ReachFrom(NonFixed(d), {x}) : x \in NonFixed(d)}

\* the components the latest call dispatched for weekday d are exactly the
\* connected components of its non-fixed blocks, each dispatched once
ComponentsExact(d) ==
    LET S == SolvesOfDay(Len(calls), d)
    IN  /\ {Members(solves[i].comp) : i \in S} = NonFixedComponents(d)
        /\ Cardinality(S) = Cardinality(NonFixedComponents(d))
        /\ \A i \in S : Len(solves[i].comp) = Cardinality(Members(solves[i].comp))

\* C4: a second call of computeBlockPositions on the unchanged block arrays,
\* made after the first call and its solves completed, leaves every block with
\* the depth, left and width it had after the first call.
C4_SecondCallSameLayout ==
    (/\ Len(calls) = 2
     /\ calls[2].idle
     /\ calls[1].state = "fulfilled"
     /\ calls[2].state = "fulfilled"
     /\ \A i \in 1..Len(solves) : solves[i].state = "done") =>
        \A x \in DOMAIN blk :
            /\ blk[x].depth = atCall[x].depth
            /\ blk[x].left = atCall[x].left
            /\ blk[x].width = atCall[x].width

\* C5: after the first call on fresh blocks every block has 0 <= left,
\* 0 < width and left + width <= 1, on weekdays of at most one column and on
\* weekdays laid out by left = depth/pathDepth, width = 1/pathDepth.
C5_Containment ==
    AnalysedFresh =>
        \A x \in DOMAIN blk :
            /\ HasAnalysisPosition(x)
            /\ RLe(<<0, 1>>, blk[x].left)
            /\ RLt(<<0, 1>>, blk[x].width)
            /\ RLe(RAdd(blk[x].left, blk[x].width), <<1, 1>>)

\* one weekday takes the single-column branch while another has a block in
\* the last of three columns
C5_Witness ==
    /\ AnalysedFresh
    /\ \E d \in 1..NumDays : Len(days[d]) > 0 /\ ret[d] = 1
    /\ \E x \in DOMAIN blk :
          /\ ret[x[1]] = 3
          /\ blk[x].depth = 2
          /\ RAdd(blk[x].left, blk[x].width) = <<1, 1>>

\* C6: after constructAdjList ran once per weekday on fresh blocks, y is in
\* the neighbors of x exactly when x and y are distinct blocks of one weekday
\* with x.start < y.end and y.start < x.end; the relation is symmetric, has no
\* self-loops and never links blocks of different weekdays.
C6_NeighborsAreConflicts ==
    Len(calls) = 1 =>
        \A x, y \in DOMAIN blk :
            /\ (Count(blk[x].neighbors, y) > 0) <=>
                   (/\ x # y
                    /\ x[1] = y[1]
                    /\ blk[x].startMin < blk[y].endMin
                    /\ blk[y].startMin < blk[x].endMin)
            /\ (Count(blk[x].neighbors, y) > 0) <=> (Count(blk[y].neighbors, x) > 0)
            /\ Count(blk[x].neighbors, x) = 0
            /\ x[1] # y[1] => Count(blk[x].neighbors, y) = 0

\* a weekday with an overlapping pair and a pair touching end to start, and a
\* block of another weekday overlapping them in time
C6_Witness ==
    /\ Len(calls) = 1
    /\ \E x, y, z, w \in DOMAIN blk :
          /\ Conflicting(x, y)
          /\ Count(blk[x].neighbors, y) = 1
          /\ x[1] = z[1] /\ blk[x].endMin = blk[z].startMin
          /\ Count(blk[x].neighbors, z) = 0
          /\ w[1] # x[1] /\ conflict(blk[w], blk[x])

\* C7: every call starts from cleared neighbor lists and visited = false, so
\* after any number of calls each block lists every conflicting block exactly
\* once and the searches of the call found no block visited at their start.
C7_PassStartsClean ==
    calls # <<>> =>
        /\ entryVisited = {}
        /\ \A x, y \in DOMAIN blk :
              Count(blk[x].neighbors, y) = IF Conflicting(x, y) THEN 1 ELSE 0

C9_FixedBlocksUntouched ==
    LatestIdle =>
        /\ \A i \in SolvesOf(Len(calls)) : \A k \in 1..Len(solves[i].comp) :
              ~blk[solves[i].comp[k]].isFixed
        /\ \A x \in DOMAIN blk : blk[x].isFixed => HasAnalysisPosition(x)

\* a solve has widened a block that conflicts with a fixed block
C9_Witness ==
    /\ Len(calls) = 1
    /\ \E i \in SolvesOf(1) :
          /\ solves[i].state = "done"
          /\ \E x \in Members(solves[i].comp), y \in DOMAIN blk :
                /\ Conflicting(x, y)
                /\ blk[y].isFixed
                /\ blk[x].width # AnalysisWidth(x)

C12_StaleResultsDiscarded ==
    Len(calls) = 2 =>
        \A x \in DOMAIN blk :
            IF \E i \in SolvesOf(2) : solves[i].state = "done" /\ x \in Members(solves[i].comp)
            THEN \E i \in SolvesOf(2) : \E k \in 1..Len(solves[i].comp) :
                    /\ solves[i].state = "done"
                    /\ solves[i].comp[k] = x
                    /\ blk[x].left = solves[i].result[k].left
                    /\ blk[x].width = solves[i].result[k].width
            ELSE HasAnalysisPosition(x)

\* the blocks as their constructor left them
FreshBlocks == [x \in DOMAIN blk |-> NewScheduleBlock(blk[x].startMin, blk[x].endMin)]

\* what the other scheduler returns for the fresh blocks of the weekday the
\* latest run worked on (a stable sort of the sorted array is that array)
OtherScheduler ==
    IF ret[3] = "intervalScheduling"
    THEN intervalScheduling2(FreshBlocks, days[ret[1]])
    ELSE intervalScheduling(FreshBlocks, days[ret[1]])

\* C13: on every weekday of fresh blocks intervalScheduling and
\* intervalScheduling2 return the same column count.
C13_SchedulersAgreeOnCount ==
    ret # <<>> => ret[2] = OtherScheduler.total

\* the greedy scheduler used three columns on a weekday where the heap-based
\* scheduler gives some block another depth
C13_Witness ==
    /\ ret # <<>>
    /\ ret[3] = "intervalScheduling"
    /\ ret[2] = 3
    /\ \E x \in Members(days[ret[1]]) : blk[x].depth # OtherScheduler.b[x].depth

\* no two blocks of weekday d conflict
NoConflictDay(d) == \A x, y \in Members(days[d]) : ~Conflicting(x, y)

\* C14: on a weekday without conflicts (an empty day, a single block, blocks
\* that only touch end to start) the scheduler reports zero columns for the
\* empty day and one column otherwise, every block ends with depth 0, left 0
\* and width 1, and no component of that day is handed to the optimizer.
C14_NoConflictDayIsTrivial ==
    calls # <<>> =>
        \A d \in 1..NumDays :
            NoConflictDay(d) =>
                /\ ret[d] = IF Len(days[d]) = 0 THEN 0 ELSE 1
                /\ \A x \in Members(days[d]) :
                      /\ blk[x].depth = 0
                      /\ blk[x].left = <<0, 1>>
                      /\ blk[x].width = <<1, 1>>
                /\ \A i \in 1..Len(solves) : solves[i].day # d

\* a weekday of three blocks touching end to start next to an empty weekday
C14_Witness ==
    /\ calls # <<>>
    /\ \E d, e \in 1..NumDays :
          /\ Len(days[e]) = 0 /\ ret[e] = 0
          /\ Len(days[d]) = 3 /\ NoConflictDay(d) /\ ret[d] = 1
          /\ \E x, y \in Members(days[d]) : blk[x].endMin = blk[y].startMin

\* weekday d has at least two blocks and all of them pairwise conflict
CliqueDay(d) ==
    /\ Len(days[d]) >= 2
    /\ \A x, y \in Members(days[d]) : x # y => Conflicting(x, y)

\* C15: on a weekday of n >= 2 fresh blocks that all pairwise conflict the
\* call assigns the n depths 0..n-1, pathDepth = n to every block, and
\* left = depth/n, width = 1/n, so no two blocks overlap horizontally.
C15_CliqueGetsEqualColumns ==
    Len(calls) = 1 =>
        \A d \in 1..NumDays :
            CliqueDay(d) =>
                /\ DepthsOf(days[d]) = 0..(Len(days[d]) - 1)
                /\ \A x \in Members(days[d]) :
                      /\ blk[x].pathDepth = Len(days[d])
                      /\ blk[x].left = Rat(blk[x].depth, Len(days[d]))
                      /\ blk[x].width = Rat(1, Len(days[d]))
                /\ \A x, y \in Members(days[d]) :
                      x # y => Disjoint(blk[x].left, blk[x].width, blk[y].left, blk[y].width)

\* four pairwise conflicting blocks, two of them with the same interval, have
\* been laid out
C15_Witness ==
    /\ Len(calls) = 1
    /\ \E d \in 1..NumDays :
          /\ CliqueDay(d)
          /\ Len(days[d]) = 4
          /\ \E x, y \in Members(days[d]) :
                /\ x # y
                /\ blk[x].startMin = blk[y].startMin /\ blk[x].endMin = blk[y].endMin
          /\ \E x, y \in Members(days[d]) : blk[x].startMin # blk[y].startMin

\* C16: after the analysis of a weekday that uses more than one column every
\* block of depth 0 is marked isFixed and is in no component handed to the
\* optimizer.
C16_DepthZeroIsFixed ==
    Len(calls) = 1 =>
        \A x \in DOMAIN blk :
            (ret[x[1]] > 1 /\ blk[x].depth = 0) =>
                /\ blk[x].isFixed
                /\ \A i \in SolvesOf(1) : x \notin Members(solves[i].comp)

\* C17: no component of a single block is handed to the optimizer: a block
\* without a non-fixed conflicting neighbor is marked isFixed or has width 1
\* after the analysis.
C17_NoSingleBlockComponent ==
    AnalysedFresh =>
        /\ \A i \in SolvesOf(1) : Len(solves[i].comp) >= 2
        /\ \A x \in DOMAIN blk :
              (\A y \in DOMAIN blk : Conflicting(x, y) => blk[y].isFixed) =>
                  (blk[x].isFixed \/ blk[x].width = <<1, 1>>)

\* C18: every block that placeHelper adds to a weekday has startMin < endMin;
\* a meeting whose parsed start is not strictly before its parsed end produces
\* no block.
C18_PlacedBlocksWellFormed ==
    \A x \in DOMAIN blk : blk[x].startMin < blk[x].endMin

\* the latest _computeSchedule read the schedule as it is now
ViewCurrent == computedFrom = [All |-> All, preview |-> previewed]

\* A[key] is a Set that holds the section
HoldsSection(A, key, section) ==
    key \in DOMAIN A /\ ~A[key].any /\ section \in A[key].secs

\* C19: update(key, section) with section # -1 toggles the section: if
\* All[key] was a set containing it, afterwards it is not contained (and the
\* key is deleted when the set became empty and remove is true); otherwise
\* All[key] afterwards is a set containing it.  The entries of the other
\* keys are unchanged and the schedule view is recomputed.
C19_UpdateTogglesSection ==
    (lastOp.name = "update" /\ lastOp.section # -1) =>
        /\ IF HoldsSection(lastOp.before, lastOp.key, lastOp.section)
           THEN /\ ~HoldsSection(All, lastOp.key, lastOp.section)
                /\ IF lastOp.before[lastOp.key].secs = {lastOp.section} /\ lastOp.remove
                   THEN lastOp.key \notin DOMAIN All
                   ELSE /\ lastOp.key \in DOMAIN All
                        /\ All[lastOp.key] =
                              SetOf(lastOp.before[lastOp.key].secs \ {lastOp.section})
           ELSE HoldsSection(All, lastOp.key, lastOp.section)
        /\ \A k \in Keys \ {lastOp.key} :
              /\ k \in DOMAIN All <=> k \in DOMAIN lastOp.before
              /\ k \in DOMAIN All => All[k] = lastOp.before[k]
        /\ ViewCurrent
        /\ runs = lastOp.runsBefore + 1

\* update removed the last section of a key and deleted the key, while the
\* other key kept its two sections
C19_Witness ==
    /\ lastOp.name = "update"
    /\ lastOp.section # -1
    /\ lastOp.remove
    /\ HoldsSection(lastOp.before, lastOp.key, lastOp.section)
    /\ lastOp.key \notin DOMAIN All
    /\ \E k \in DOMAIN All : All[k] = SetOf(Sections)

\* C20: computeSchedule first removes the pending deferred compute, so at
\* most one deferred compute is pending; a deferred compute that was
\* superseded never runs, and the last requested compute runs, at once if
\* sync and else once when its timer fires, on the latest schedule state.
C20_OneDeferredCompute ==
    /\ [](/\ Cardinality(timers) <= 1
          /\ \A t \in timers : ~lastOp.sync /\ t = pendingCompute /\ t = timerSeq
          /\ timers = {} => (ViewCurrent /\ runs = lastOp.runsBefore + 1))
    /\ [](timers # {} => <>(timers = {} /\ ViewCurrent))

\* two previews were requested one after the other and only the timer of the
\* second one ran
C20_Witness ==
    /\ lastOp.name = "preview"
    /\ lastOp.before = All
    /\ timerSeq = 2
    /\ timers = {}
    /\ runs = 2
    /\ computedFrom.preview = previewed

\* the blocks from which x can be reached along a chain of conflicting blocks
\* of strictly decreasing depth, x included
RECURSIVE ChainAbove(_)
ChainAbove(R) ==
    IF \E y \in DOMAIN blk \ R : \E x \in R : Conflicting(x, y) /\ blk[y].depth > blk[x].depth
    THEN ChainAbove(R \cup {y \in DOMAIN blk :
                               \E x \in R : Conflicting(x, y) /\ blk[y].depth > blk[x].depth})
    ELSE R
MaxDepthOf(S) == CHOOSE m \in {blk[y].depth : y \in S} : \A y \in S : blk[y].depth <= m

\* the weekday of x went through calculateMaxDepth in the latest call
DayAnalysed(x) == ret[x[1]] > 1

\* C24: after calculateMaxDepth on the fresh blocks of a weekday, the pathDepth
\* of a block is 1 + the largest depth of a block from which it is reached
\* along a chain of conflicting blocks of strictly decreasing depth (itself
\* included); so pathDepth >= depth + 1, and a conflicting block of lower depth
\* never has a smaller pathDepth than the block of higher depth.
C24_PathDepthIsDeepestChain ==
    AnalysedFresh =>
        \A x \in DOMAIN blk :
            DayAnalysed(x) =>
                /\ blk[x].pathDepth = 1 + MaxDepthOf(ChainAbove({x}))
                /\ blk[x].pathDepth >= blk[x].depth + 1
                /\ \A y \in DOMAIN blk :
                      (Conflicting(x, y) /\ blk[y].depth < blk[x].depth) =>
                          blk[y].pathDepth >= blk[x].pathDepth

\* a block at depth 0 got pathDepth 3 through a chain of two conflicts: no
\* block that conflicts with it lies deeper than depth 1
C24_Witness ==
    /\ AnalysedFresh
    /\ \E x \in DOMAIN blk :
          /\ DayAnalysed(x)
          /\ blk[x].depth = 0
          /\ blk[x].pathDepth = 3
          /\ \A y \in DOMAIN blk : Conflicting(x, y) => blk[y].depth <= 1

\* the neighbors of x exactly one column lower and on a path of the same depth
SamePathBelow(x) ==
    {y \in DOMAIN blk :
        /\ Conflicting(x, y)
        /\ blk[x].depth - blk[y].depth = 1
        /\ blk[x].pathDepth = blk[y].pathDepth}

\* C25: after the fixed-block detection, a block with depth > 0 is marked
\* isFixed exactly when every neighbor one column lower with the same
\* pathDepth is marked isFixed.
C25_FixedIffEveryLowerNeighborFixed ==
    AnalysedFresh =>
        \A x \in DOMAIN blk :
            (DayAnalysed(x) /\ blk[x].depth > 0) =>
                (blk[x].isFixed <=> \A y \in SamePathBelow(x) : blk[y].isFixed)

\* the reading of the loop in DFSFindFixed, "some neighbor" in place of "every
\* neighbor": a block that no search reaches keeps isFixed = false, so this
\* fails as well
C25_FixedIffSomeLowerNeighborFixed ==
    AnalysedFresh =>
        \A x \in DOMAIN blk :
            (DayAnalysed(x) /\ blk[x].depth > 0) =>
                (blk[x].isFixed <=> \E y \in SamePathBelow(x) : blk[y].isFixed)

\* the columns that hold a block processed before position k of the sorted
\* array and conflicting with the block at position k
TakenBefore(blocks, k) ==
    {blk[blocks[j]].depth : j \in {i \in 1..(k - 1) : Conflicting(blocks[i], blocks[k])}}
\* the columns opened before position k
OpenedBefore(blocks, k) == {blk[blocks[j]].depth : j \in 1..(k - 1)}
LowestFree(taken) == CHOOSE c \in 0..MaxBlocks : c \notin taken /\ \A c2 \in 0..(c - 1) : c2 \in taken

\* C26: intervalScheduling leaves the blocks sorted by start, then duration,
\* and gives each block the lowest column that holds no earlier block
\* conflicting with it; it opens a new column only when every column opened so
\* far holds such a block; so a block at depth d > 0 conflicts with a block at
\* each of the depths 0..d-1.
C26_GreedyTakesLowestColumn ==
    (ret # <<>> /\ ret[3] = "intervalScheduling") =>
        LET blocks == days[ret[1]]
        IN  /\ \A k \in 1..(Len(blocks) - 1) :
                  \/ blk[blocks[k]].startMin < blk[blocks[k + 1]].startMin
                  \/ /\ blk[blocks[k]].startMin = blk[blocks[k + 1]].startMin
                     /\ duration(blk[blocks[k]]) <= duration(blk[blocks[k + 1]])
            /\ \A k \in 1..Len(blocks) :
                  /\ blk[blocks[k]].depth = LowestFree(TakenBefore(blocks, k))
                  /\ blk[blocks[k]].depth \notin OpenedBefore(blocks, k) =>
                        OpenedBefore(blocks, k) \subseteq TakenBefore(blocks, k)
            /\ \A x \in Members(blocks) : \A c \in 0..(blk[x].depth - 1) :
                  \E y \in Members(blocks) : Conflicting(x, y) /\ blk[y].depth = c

\* the greedy scheduler put a block into column 0 while column 1 was free as
\* well, and opened a third column for another block
C26_Witness ==
    /\ ret # <<>>
    /\ ret[3] = "intervalScheduling"
    /\ ret[2] = 3
    /\ \E k \in 1..Len(days[ret[1]]) :
          /\ blk[days[ret[1]][k]].depth = 0
          /\ {0, 1} \subseteq OpenedBefore(days[ret[1]], k)
          /\ TakenBefore(days[ret[1]], k) = {}

\* addEvent rejects e1 next to e2: same days string, or a time conflict
EventsClash(e1, e2) == e1 = e2 \/ checkTimeConflict(toTimeDict(e1), toTimeDict(e2))

HalfOpenOverlap(a, b) ==
    \E day \in DOMAIN a \cap DOMAIN b :
        \E i \in blockStarts(a[day]), j \in blockStarts(b[day]) :
            a[day][i] < b[day][j + 1] /\ b[day][j] < a[day][i + 1]

\* C27: checkTimeConflict(a, b) is true exactly when a and b have a common
\* day with two blocks that overlap as half-open intervals (blocks that only
\* touch do not conflict), and it is symmetric in its arguments.
C27_ConflictIsHalfOpenOverlap ==
    \A k \in 1..Len(lastEvent.checks) :
        /\ lastEvent.checks[k].r = HalfOpenOverlap(lastEvent.checks[k].a, lastEvent.checks[k].b)
        /\ lastEvent.checks[k].r = checkTimeConflict(lastEvent.checks[k].b, lastEvent.checks[k].a)

\* the combined score of course key for a query on a dictionary: the weighted
\* score of its course match plus those of its section matches
RECURSIVE SumScores(_, _, _, _)
SumScores(results, key, ofCourse, i) ==
    IF i > Len(results) THEN 0
    ELSE SumScores(results, key, ofCourse, i + 1)
         + (IF ofCourse
            THEN IF results[i].item = key
                 THEN results[i].score * (IF results[i].original = "title" THEN 10 ELSE 5)
                 ELSE 0
            ELSE IF results[i].key = key
                 THEN results[i].score * (IF results[i].original = "topic" THEN 8 ELSE 4)
                 ELSE 0)
CombinedScore(dict, query, key) ==
    SumScores(courseSearch(dict, query, 1), key, TRUE, 1)
    + SumScores(sectionSearch(dict, query, 1), key, FALSE, 1)

\* the n-th reply is a result array for the n-th message: at most 12 entries,
\* in descending order of combined score
IsQueryReply(n) ==
    /\ handled[n].kind = "query"
    /\ posted[n].type = "results"
    /\ Len(posted[n].results) <= 12
    /\ \A i \in 1..(Len(posted[n].results) - 1) :
          CombinedScore(courseDict, handled[n].query, posted[n].results[i].key)
              >= CombinedScore(courseDict, handled[n].query, posted[n].results[i + 1].key)

\* C23: the first message the worker receives is taken as the dictionary and
\* answered with one 'ready'; every later message is taken as a query and
\* answered with one result array of at most 12 entries in descending order
\* of combined score; no query is answered before 'ready' was posted.  At
\* any moment the worker has posted one reply per message it has handled.
C23_WorkerProtocol ==
    /\ Len(posted) = count
    /\ Len(handled) = count
    /\ count + Len(inbox) = sent
    /\ posted # <<>> =>
          /\ posted[1].type = "ready"
          /\ handled[1].kind = "dict"
          /\ courseDict = handled[1].dict
    /\ \A n \in 2..Len(posted) : IsQueryReply(n)

\* two queries were answered after 'ready'; the second reply was cut to 12 of
\* 13 scored courses, holds different scores, and its first course matched
\* both as a course and through a section
C23_Witness ==
    /\ Len(posted) = 3
    /\ Len(posted[3].results) = 12
    /\ Cardinality({key \in courseDict : CombinedScore(courseDict, handled[3].query, key) > 0}) = 13
    /\ CombinedScore(courseDict, handled[3].query, posted[3].results[1].key)
          > CombinedScore(courseDict, handled[3].query, posted[3].results[12].key)
    /\ posted[3].results[1].match # <<>>
    /\ posted[3].results[1].secMatches # <<>>

\* u lies in the DFS subtree of v: v is reached from u along parent pointers
RECURSIVE InSubtree(_, _)
InSubtree(v, u) ==
    u = v \/ (vertices[u].parent # 0 /\ InSubtree(v, vertices[u].parent))
SubtreeDepth(v) ==
    CHOOSE m \in {vertices[u].depth : u \in {w \in DOMAIN vertices : InSubtree(v, w)}} :
        \A u \in DOMAIN vertices : InSubtree(v, u) => vertices[u].depth <= m

C30_ProfileNamesDistinct ==
    \A i, j \in DOMAIN profiles : profiles[i] = profiles[j] => i = j

\* the part of C30 that holds: addProfile alone keeps the names distinct
AddProfileInputs ==
    \E rawName \in ProfileNames \cup {NoName}, semester \in 1..NumNames,
       sw \in BOOLEAN, confirmed \in BOOLEAN :
       addProfile(rawName, <<1>>, semester, sw, confirmed)
C30_AddProfileKeepsNamesDistinct ==
    [][C30_ProfileNamesDistinct /\ AddProfileInputs => C30_ProfileNamesDistinct']_vars

(* C22: a completed deleteProfile(name, idx) has removed profiles[idx] and its
   stored data; if the deleted profile was the current one, current is, and
   the call returned, the name of the previous profile in the list, which is
   still listed; otherwise the call returned undefined and current is
   unchanged.  Fails: the profile after the deleted one is selected unless
   the deleted one was the last, and nothing is selected when it was the only
   one. *)
C22_DeleteSelectsPreviousProfile ==
    lastDelete.done =>
        /\ lastDelete.profilesAfter = splice(lastDelete.before, lastDelete.idx + 1)
        /\ lastDelete.name \notin DOMAIN lastDelete.storageAfter
        /\ IF lastDelete.name = lastDelete.currentBefore
           THEN /\ lastDelete.returned = at(lastDelete.before, lastDelete.idx - 1)
                /\ lastDelete.currentAfter = lastDelete.returned
                /\ lastDelete.returned \in Members(lastDelete.profilesAfter)
           ELSE /\ lastDelete.returned = NoName
                /\ lastDelete.currentAfter = lastDelete.currentBefore

\* the same for a deleted profile that had a profile before it and was not the
\* last of the list; fails as well
C22_DeleteInTheMiddle ==
    /\ lastDelete.done
    /\ lastDelete.name = lastDelete.currentBefore
    /\ 0 < lastDelete.idx
    /\ lastDelete.idx + 1 < Len(lastDelete.before)
    => lastDelete.returned = at(lastDelete.before, lastDelete.idx - 1)

\* a call of syncProfiles that has returned and saw no change but its own
Undisturbed(i) == syncs[i].state = "done" /\ ~syncs[i].dirty

\* what a call that started from local storage L, list P and backend R has to
\* leave for the name n in the local storage and on the backend
NewerWins(n, L, R, A) ==
    IF n \in DOMAIN L /\ n \in DOMAIN R
    THEN IF L[n].modified < R[n].modified
         THEN A.storage[n] = R[n] /\ A.remote[n] = R[n]
         ELSE IF L[n].modified > R[n].modified
         THEN A.storage[n] = L[n] /\ A.remote[n] = L[n]
         ELSE A.storage[n] = L[n] /\ A.remote[n] = R[n]
    ELSE IF n \in DOMAIN R
    THEN A.storage[n] = R[n] /\ A.remote[n] = R[n] /\ n \in Members(A.profiles)
    ELSE A.storage[n] = L[n] /\ A.remote[n] = L[n]

(* C29: after syncProfiles completes with credentials present and no
   concurrent change, for every profile name known locally or remotely the
   newer version is on both sides: an older local copy is overwritten by the
   remote one, a newer one is uploaded, equal modified times transfer
   nothing, a remote-only profile is stored and listed, a local-only profile
   is uploaded, and no other name appears; without credentials syncProfiles
   changes nothing. *)
C29_SyncNewerWins ==
    /\ [](\A i \in DOMAIN syncs :
            Undisturbed(i) =>
                /\ \A n \in Members(syncs[i].atCall.profiles)
                            \cup DOMAIN syncs[i].atCall.remote :
                       /\ n \in DOMAIN syncs[i].after.storage
                       /\ n \in DOMAIN syncs[i].after.remote
                       /\ n \in Members(syncs[i].after.profiles)
                       /\ NewerWins(n, syncs[i].atCall.storage, syncs[i].atCall.remote,
                                    syncs[i].after)
                /\ Members(syncs[i].after.profiles)
                       = Members(syncs[i].atCall.profiles) \cup DOMAIN syncs[i].atCall.remote
                /\ DOMAIN syncs[i].after.remote = Members(syncs[i].after.profiles)
                /\ Len(syncs[i].after.profiles) = Cardinality(Members(syncs[i].after.profiles)))
    /\ [][syncProfiles /\ ~credentials
             => UNCHANGED <<profiles, current, storage, remote, syncs>>]_vars

\* a call that overwrote an older local profile, uploaded a local-only one and
\* added a remote-only one
C29_Witness ==
    \E i \in DOMAIN syncs :
        /\ Undisturbed(i)
        /\ \E n \in DOMAIN syncs[i].atCall.storage \cap DOMAIN syncs[i].atCall.remote :
              /\ syncs[i].atCall.storage[n].modified < syncs[i].atCall.remote[n].modified
              /\ syncs[i].after.storage[n] = syncs[i].atCall.remote[n]
        /\ \E n \in DOMAIN syncs[i].atCall.storage \ DOMAIN syncs[i].atCall.remote :
              syncs[i].after.remote[n] = syncs[i].atCall.storage[n]
        /\ \E n \in DOMAIN syncs[i].atCall.remote \ DOMAIN syncs[i].atCall.storage :
              /\ n \in Members(syncs[i].after.profiles)
              /\ syncs[i].after.storage[n] = syncs[i].atCall.remote[n]

=============================================================================
